---- MODULE Spec2Model ----
(***************************************************************************)
(* State-machine model of VulkanRenderer (src/src/vulkan_renderer.cpp,     *)
(* src/src/vulkan_renderer.h) and of the two threads that drive it         *)
(* (DrawImage in src/src/image_drawing.cpp, the reset block of the main    *)
(* loop in src/src/main_win32.cpp).                                        *)
(*                                                                         *)
(* The renderer's fields are the variables.  Every C++ member function is  *)
(* an operator from a state record to a state record, so that a function   *)
(* that calls another one is the composition of the two operators, exactly *)
(* as in the source; a public operation is the action that applies its     *)
(* operator to the current state.  The Vulkan driver is the environment:   *)
(* the result of every Vulkan call that can fail is an input of the        *)
(* operation, drawn from the result codes that call can return.            *)
(***************************************************************************)
EXTENDS Integers, Sequences, FiniteSets, TLC

(***************************************************************************)
(* Bounds of the model and constants of the program.                       *)
(***************************************************************************)
MaxDim == 2
MAX_FRAMES_IN_FLIGHT == 2
MaxSide == 65536
MinImages == 2
FallbackW == 800
FallbackH == 600

Slots == 0..(MAX_FRAMES_IN_FLIGHT - 1)
\* The sizes a caller passes to Resize and Render: the valid ones, and one for
\* each way a size is refused (a zero or an oversized width or height).
ValidDims == 1..MaxDim
ValidSizes == {<<d, d>> : d \in ValidDims}
BadSizes == {<<0, 1>>, <<1, 0>>, <<MaxSide + 1, 1>>, <<1, MaxSide + 1>>}
Sizes == ValidSizes \cup BadSizes
\* Image counts a swapchain may come back with (the request is clamp(2, min, max|3)).
ImageCounts == {MinImages, MinImages + 1}

(***************************************************************************)
(* Handles.  The code can only compare a handle with VK_NULL_HANDLE; the   *)
(* other three tags are bookkeeping: LIVE is an object that exists, DEAD   *)
(* one that was destroyed or freed while the handle was kept, ORPHAN a     *)
(* child of a logical device the renderer dropped without destroying it.   *)
(***************************************************************************)
NULL == "null"
LIVE == "live"
DEAD == "dead"
ORPHAN == "orphan"

\* Image layouts of the texture (VkImageLayout values the code uses).
UNDEFINED == "UNDEFINED"
TRANSFER_DST == "TRANSFER_DST_OPTIMAL"
TRANSFER_SRC == "TRANSFER_SRC_OPTIMAL"
PRESENT_SRC == "PRESENT_SRC_KHR"

\* VkResult values.
SUCCESS == "VK_SUCCESS"
DEVICE_LOST == "VK_ERROR_DEVICE_LOST"
OUT_OF_DATE == "VK_ERROR_OUT_OF_DATE_KHR"
SUBOPTIMAL == "VK_SUBOPTIMAL_KHR"
OOM == "VK_ERROR_OUT_OF_HOST_MEMORY"
SURFACE_LOST == "VK_ERROR_SURFACE_LOST_KHR"

VARIABLES
    \* ---- VulkanRenderer fields (vulkan_renderer.h:60-126)
    instance_, surface_, physicalDevice_, device_, commandPool_,
    swapchain_, swapchainExtent_, swapchainImages_, swapchainImageViews_,
    commandBuffers_,
    imageAvailableSemaphores_, renderFinishedSemaphores_, inFlightFences_,
    currentFrame_,
    textureImage_, textureMemory_, textureLayout_, textureDesc_,
    deviceLost_, swapchainOutOfDate_, vulkanAvailable_,
    fallbackHwnd_, fallbackExtent_, fallbackBuffer_,
    \* ---- driver side: what the GPU and the loader know
    gpuLost,        \* the logical device is lost
    fenceSignaled,  \* per slot: the slot's fence is signaled
    outstanding,    \* per slot: submissions with the slot's fence not yet completed
    realLayout,     \* the layout the texture image is really in
    \* ---- observation of the last step
    lastOp,         \* the public operation called, or the GPU event
    outcome,        \* the return path the operation took
    calls,          \* the Vulkan calls it issued, in order
    halted,         \* "no", or why the calling thread cannot go on
    \* ---- the application around the renderer (viewer.h:100-107)
    renderer,            \* g_ctx.renderer holds an object
    rendererNeedsReset,
    renderInProgress,
    renderLock,          \* the SRW lock: number of shared holders, exclusive holder
    lastImage,           \* DrawImage's statics describe the image that was uploaded
    drawPc,              \* where the painting thread is in DrawImage
    resetPc,             \* where the main loop is in start-up or in the reset
    \* ---- one call of a helper function on its own
    fnIn,                \* the arguments of the call
    fnOut                \* what the call returned and left behind

vars == <<instance_, surface_, physicalDevice_, device_, commandPool_,
          swapchain_, swapchainExtent_, swapchainImages_, swapchainImageViews_,
          commandBuffers_,
          imageAvailableSemaphores_, renderFinishedSemaphores_, inFlightFences_,
          currentFrame_,
          textureImage_, textureMemory_, textureLayout_, textureDesc_,
          deviceLost_, swapchainOutOfDate_, vulkanAvailable_,
          fallbackHwnd_, fallbackExtent_, fallbackBuffer_,
          gpuLost, fenceSignaled, outstanding, realLayout,
          lastOp, outcome, calls, halted,
          renderer, rendererNeedsReset, renderInProgress, renderLock, lastImage,
          drawPc, resetPc, fnIn, fnOut>>

\* The variables of the application.
appVars == <<renderer, rendererNeedsReset, renderInProgress, renderLock, lastImage,
             drawPc, resetPc>>

\* The variables of a helper function called on its own.
fnVars == <<fnIn, fnOut>>
\* No call has been made.
NoCall == [fn |-> "-"]

\* The current state as one record, the argument of the member functions below.
Cur ==
    [instance_ |-> instance_, surface_ |-> surface_,
     physicalDevice_ |-> physicalDevice_, device_ |-> device_,
     commandPool_ |-> commandPool_, swapchain_ |-> swapchain_,
     swapchainExtent_ |-> swapchainExtent_, swapchainImages_ |-> swapchainImages_,
     swapchainImageViews_ |-> swapchainImageViews_,
     commandBuffers_ |-> commandBuffers_,
     imageAvailableSemaphores_ |-> imageAvailableSemaphores_,
     renderFinishedSemaphores_ |-> renderFinishedSemaphores_,
     inFlightFences_ |-> inFlightFences_, currentFrame_ |-> currentFrame_,
     textureImage_ |-> textureImage_, textureMemory_ |-> textureMemory_,
     textureLayout_ |-> textureLayout_, textureDesc_ |-> textureDesc_,
     deviceLost_ |-> deviceLost_, swapchainOutOfDate_ |-> swapchainOutOfDate_,
     vulkanAvailable_ |-> vulkanAvailable_,
     fallbackHwnd_ |-> fallbackHwnd_, fallbackExtent_ |-> fallbackExtent_,
     fallbackBuffer_ |-> fallbackBuffer_,
     gpuLost |-> gpuLost, fenceSignaled |-> fenceSignaled,
     outstanding |-> outstanding, realLayout |-> realLayout,
     lastOp |-> lastOp, outcome |-> outcome, calls |-> calls, halted |-> halted]

\* The next state is the record s.
Assign(s) ==
    /\ instance_' = s.instance_
    /\ surface_' = s.surface_
    /\ physicalDevice_' = s.physicalDevice_
    /\ device_' = s.device_
    /\ commandPool_' = s.commandPool_
    /\ swapchain_' = s.swapchain_
    /\ swapchainExtent_' = s.swapchainExtent_
    /\ swapchainImages_' = s.swapchainImages_
    /\ swapchainImageViews_' = s.swapchainImageViews_
    /\ commandBuffers_' = s.commandBuffers_
    /\ imageAvailableSemaphores_' = s.imageAvailableSemaphores_
    /\ renderFinishedSemaphores_' = s.renderFinishedSemaphores_
    /\ inFlightFences_' = s.inFlightFences_
    /\ currentFrame_' = s.currentFrame_
    /\ textureImage_' = s.textureImage_
    /\ textureMemory_' = s.textureMemory_
    /\ textureLayout_' = s.textureLayout_
    /\ textureDesc_' = s.textureDesc_
    /\ deviceLost_' = s.deviceLost_
    /\ swapchainOutOfDate_' = s.swapchainOutOfDate_
    /\ vulkanAvailable_' = s.vulkanAvailable_
    /\ fallbackHwnd_' = s.fallbackHwnd_
    /\ fallbackExtent_' = s.fallbackExtent_
    /\ fallbackBuffer_' = s.fallbackBuffer_
    /\ gpuLost' = s.gpuLost
    /\ fenceSignaled' = s.fenceSignaled
    /\ outstanding' = s.outstanding
    /\ realLayout' = s.realLayout
    /\ lastOp' = s.lastOp
    /\ outcome' = s.outcome
    /\ calls' = s.calls
    /\ halted' = s.halted

\* The texture's recorded width, height and HDR flag; all zero when none is held.
NoTexture == [w |-> 0, h |-> 0, hdr |-> FALSE]

\* The state after construction: the in-class member initializers.
Constructor ==
    /\ instance_ = NULL /\ surface_ = NULL /\ physicalDevice_ = NULL
    /\ device_ = NULL /\ commandPool_ = NULL /\ swapchain_ = NULL
    /\ swapchainExtent_ = <<0, 0>>
    /\ swapchainImages_ = 0
    /\ swapchainImageViews_ = <<>>
    /\ commandBuffers_ = <<>>
    /\ imageAvailableSemaphores_ = <<>>
    /\ renderFinishedSemaphores_ = <<>>
    /\ inFlightFences_ = <<>>
    /\ currentFrame_ = 0
    /\ textureImage_ = NULL /\ textureMemory_ = NULL
    /\ textureLayout_ = UNDEFINED
    /\ textureDesc_ = NoTexture
    /\ deviceLost_ = FALSE /\ swapchainOutOfDate_ = FALSE
    /\ vulkanAvailable_ = FALSE
    /\ fallbackHwnd_ = NULL
    /\ fallbackExtent_ = <<FallbackW, FallbackH>>
    /\ fallbackBuffer_ = 0
    /\ gpuLost = FALSE
    /\ fenceSignaled = [i \in Slots |-> FALSE]
    /\ outstanding = [i \in Slots |-> 0]
    /\ realLayout = UNDEFINED
    /\ lastOp = "new" /\ outcome = "constructed" /\ calls = <<>>
    /\ renderer = TRUE
    /\ rendererNeedsReset = FALSE
    /\ renderInProgress = FALSE
    /\ renderLock = [shared |-> 0, exclusive |-> FALSE]
    /\ lastImage = FALSE
    /\ drawPc = "idle"
    /\ resetPc = "start"
    /\ halted = "no"

Init == Constructor /\ fnIn = NoCall /\ fnOut = NoCall

(***************************************************************************)
(* Bookkeeping shared by the member functions.                             *)
(***************************************************************************)
\* An entry of the call log is <<function, x>>: x is the VkResult of a call that
\* returns one, the tag of the handle for a destroy, and "-" otherwise.
Log(s, fn, x) == [s EXCEPT !.calls = Append(@, <<fn, x>>)]

\* A call that hands the driver a null device: undefined behaviour.  The
\* model records it and stops the calling thread there.
NullDeviceCall(s, fn) == [Log(s, fn, NULL) EXCEPT !.halted = "null-device call"]

\* A vkDestroy*/vkFree* of the object behind handle h.
Destroy(s, fn, h) == Log(s, fn, h)

\* The functions that destroy or free a GPU object the renderer owns.
DestroyFns ==
    {"vkDestroyImageView", "vkDestroySwapchainKHR", "vkDestroyImage",
     "vkFreeMemory", "vkDestroySemaphore", "vkDestroyFence",
     "vkDestroyCommandPool", "vkDestroyDevice",
     "vkDestroySurfaceKHR", "vkDestroyInstance"}

\* The entries of a call log that destroy something.
Destroys(log) == SelectSeq(log, LAMBDA c : c[1] \in DestroyFns)

\* Destroy every non-null handle of a vector, in index order.
RECURSIVE DestroyEach(_, _, _, _)
DestroyEach(s, fn, hs, i) ==
    IF i > Len(hs) THEN s
    ELSE DestroyEach(IF hs[i] # NULL THEN Destroy(s, fn, hs[i]) ELSE s, fn, hs, i + 1)

\* All queue work is complete (a successful vkDeviceWaitIdle / vkQueueWaitIdle):
\* every outstanding submission has finished and signaled its fence.  On a lost
\* device the wait returns VK_ERROR_DEVICE_LOST, which retires the submissions
\* without signaling anything.
DrainQueue(s) ==
    [s EXCEPT !.fenceSignaled = [i \in Slots |->
                  IF s.outstanding[i] > 0 /\ ~s.gpuLost THEN TRUE ELSE @[i]],
              !.outstanding = [i \in Slots |-> 0]]

\* Every live child of the logical device becomes an orphan: the renderer has
\* dropped the device handle without destroying the device (Shutdown's
\* device-lost path, vulkan_renderer.cpp:697-709).  The handles keep their
\* values, so the code still sees them as non-null.
OrphanTag(h) == IF h = LIVE THEN ORPHAN ELSE h
OrphanSeq(hs) == [i \in 1..Len(hs) |-> OrphanTag(hs[i])]
OrphanChildren(s) ==
    [s EXCEPT !.commandPool_ = OrphanTag(@),
              !.swapchain_ = OrphanTag(@),
              !.swapchainImageViews_ = OrphanSeq(@),
              !.commandBuffers_ = OrphanSeq(@),
              !.imageAvailableSemaphores_ = OrphanSeq(@),
              !.renderFinishedSemaphores_ = OrphanSeq(@),
              !.inFlightFences_ = OrphanSeq(@),
              !.textureImage_ = OrphanTag(@),
              !.textureMemory_ = OrphanTag(@)]

\* The logical device is gone (destroyed or dropped): nothing is outstanding on
\* it and it is no longer a lost device.
NoDevice(s) ==
    [s EXCEPT !.gpuLost = FALSE,
              !.fenceSignaled = [i \in Slots |-> FALSE],
              !.outstanding = [i \in Slots |-> 0]]

(***************************************************************************)
(* Swapchain (vulkan_renderer.cpp:386-540).                                *)
(***************************************************************************)
\* caps.currentExtent when the platform leaves the extent to the swapchain:
\* UINT32_MAX in both fields, written here as its signed reading.
Undef == <<0 - 1, 0 - 1>>
\* What the surface reports as its current extent.
CurExts == {Undef, <<1, 1>>}

\* What the driver answers during one createSwapchain: the step that fails
\* ("ok" when none does), the surface's current extent, the number of images
\* of the new swapchain and the index of the image view whose creation fails.
SwapEnv(stage, curExt, count, failAt) ==
    [stage |-> stage, curExt |-> curExt, count |-> count, failAt |-> failAt]
SwapEnvs ==
    {SwapEnv(st, Undef, MinImages, 0) : st \in {"noFormats", "capsFail", "createFail"}}
    \cup {SwapEnv("viewFail", Undef, MinImages, MinImages)}
    \cup {SwapEnv("cmdFail", Undef, c, 0) : c \in ImageCounts}
    \cup {SwapEnv("ok", x, c, 0) : x \in CurExts, c \in ImageCounts}
SwapFailEnvs == {e \in SwapEnvs : e.stage # "ok"}

destroySwapchain(s) ==
    LET s1 == [DestroyEach(s, "vkDestroyImageView", s.swapchainImageViews_, 1)
                   EXCEPT !.swapchainImageViews_ = <<>>]
    IN IF s1.swapchain_ # NULL
       THEN [Destroy(s1, "vkDestroySwapchainKHR", s1.swapchain_)
                 EXCEPT !.swapchain_ = NULL]
       ELSE s1

createCommandPool(s, res) ==
    LET s1 == Log(s, "vkCreateCommandPool", res)
    IN [s |-> IF res = SUCCESS THEN [s1 EXCEPT !.commandPool_ = LIVE] ELSE s1,
        ok |-> res = SUCCESS]

\* std::clamp(v, lo, hi) with the surface limits 1..MaxSide.
ClampDim(v) == IF v < 1 THEN 1 ELSE IF v > MaxSide THEN MaxSide ELSE v

\* The extent createSwapchain settles on (vulkan_renderer.cpp:421-431).
ChooseExtent(width, height, curExt) ==
    IF curExt[1] = Undef[1] THEN <<ClampDim(width), ClampDim(height)>> ELSE curExt

\* vector::resize(n) of a vector of handles: the first entries are kept, new
\* ones are null.
Resized(hs, n) == [i \in 1..n |-> IF i <= Len(hs) THEN hs[i] ELSE NULL]

\* The command-buffer block of createSwapchain (vulkan_renderer.cpp:486-498).
allocateCommandBuffers(s, e) ==
    IF Len(s.commandBuffers_) = e.count THEN [s |-> s, ok |-> TRUE]
    ELSE
      LET fail == (e.stage = "cmdFail")
          p == IF s.commandPool_ = NULL
               THEN createCommandPool(s, IF fail THEN OOM ELSE SUCCESS)
               ELSE [s |-> s, ok |-> TRUE]
      IN IF ~p.ok THEN [s |-> p.s, ok |-> FALSE]
         ELSE
           LET s1 == IF Len(p.s.commandBuffers_) > 0
                     THEN [Log(p.s, "vkFreeCommandBuffers", "-") EXCEPT
                              !.commandBuffers_ =
                                  [i \in 1..Len(@) |-> IF @[i] = LIVE THEN DEAD ELSE @[i]]]
                     ELSE p.s
               res == IF fail /\ s.commandPool_ # NULL THEN OOM ELSE SUCCESS
               s2 == [Log(s1, "vkAllocateCommandBuffers", res) EXCEPT
                         !.commandBuffers_ =
                             IF res = SUCCESS THEN [i \in 1..e.count |-> LIVE]
                             ELSE Resized(@, e.count)]
           IN [s |-> s2, ok |-> res = SUCCESS]

createSwapchain(s, width, height, e) ==
    IF width = 0 \/ height = 0 THEN [s |-> s, ok |-> FALSE]
    ELSE IF e.stage = "noFormats"
    THEN [s |-> Log(s, "vkGetPhysicalDeviceSurfaceFormatsKHR", "-"), ok |-> FALSE]
    ELSE
      LET s1 == Log(s, "vkGetPhysicalDeviceSurfaceFormatsKHR", "-")
          capRes == IF e.stage = "capsFail" THEN SURFACE_LOST ELSE SUCCESS
          s2 == Log(s1, "vkGetPhysicalDeviceSurfaceCapabilitiesKHR", capRes)
      IN IF capRes # SUCCESS THEN [s |-> s2, ok |-> FALSE]
         ELSE
           LET s3 == [s2 EXCEPT !.swapchainExtent_ =
                                    ChooseExtent(width, height, e.curExt)]
               crRes == IF e.stage = "createFail" THEN OOM ELSE SUCCESS
               s4 == Log(s3, "vkCreateSwapchainKHR", crRes)
           IN IF crRes # SUCCESS THEN [s |-> s4, ok |-> FALSE]
              ELSE
                LET made == IF e.stage = "viewFail" THEN e.failAt - 1 ELSE e.count
                    old == Resized(s4.swapchainImageViews_, e.count)
                    s5 == [s4 EXCEPT
                             !.swapchain_ = LIVE,
                             !.swapchainImages_ = e.count,
                             !.swapchainImageViews_ =
                                 [i \in 1..e.count |-> IF i <= made THEN LIVE ELSE old[i]],
                             !.calls = @ \o [i \in 1..made |-> <<"vkCreateImageView", SUCCESS>>]]
                IN IF e.stage = "viewFail"
                   THEN [s |-> Log(s5, "vkCreateImageView", OOM), ok |-> FALSE]
                   ELSE allocateCommandBuffers(s5, e)

\* vkDeviceWaitIdle as recreateSwapchain and Shutdown issue it: its result, and
\* the queue drained.
deviceWaitIdle(s) ==
    DrainQueue(Log(s, "vkDeviceWaitIdle", IF s.gpuLost THEN DEVICE_LOST ELSE SUCCESS))

recreateSwapchain(s, width, height, e) ==
    IF s.device_ = NULL THEN NullDeviceCall(s, "vkDeviceWaitIdle")
    ELSE createSwapchain(destroySwapchain(deviceWaitIdle(s)), width, height, e).s

(***************************************************************************)
(* Frame synchronization ring (vulkan_renderer.cpp:514-534).               *)
(***************************************************************************)
\* failAt = 0: every object is created.  Otherwise the failAt-th creation call
\* fails, in the order semaphore, semaphore, fence of slot 0, then of slot 1.
SyncFails == 0..(3 * MAX_FRAMES_IN_FLIGHT)

\* The frame counter of a freshly created ring.
FirstFrame == 0

createSyncObjects(s, failAt) ==
    LET n == MAX_FRAMES_IN_FLIGHT
        made(k) == failAt = 0 \/ k < failAt   \* the k-th creation call succeeded
        fill(hs, j) == [i \in 1..n |->
                          IF made(3 * (i - 1) + j) THEN LIVE ELSE Resized(hs, n)[i]]
        tried == IF failAt = 0 THEN 3 * n ELSE failAt
        log == [k \in 1..tried |->
                  <<IF k % 3 = 0 THEN "vkCreateFence" ELSE "vkCreateSemaphore",
                    IF made(k) THEN SUCCESS ELSE OOM>>]
        s1 == [s EXCEPT
                 !.imageAvailableSemaphores_ = fill(@, 1),
                 !.renderFinishedSemaphores_ = fill(@, 2),
                 !.inFlightFences_ = fill(@, 3),
                 \* VK_FENCE_CREATE_SIGNALED_BIT
                 !.fenceSignaled = [i \in Slots |-> IF made(3 * i + 3) THEN TRUE ELSE @[i]],
                 !.outstanding = [i \in Slots |-> IF made(3 * i + 3) THEN 0 ELSE @[i]],
                 !.calls = @ \o log]
    IN IF failAt = 0
       THEN [s |-> [s1 EXCEPT !.currentFrame_ = FirstFrame], ok |-> TRUE]
       ELSE [s |-> s1, ok |-> FALSE]

(***************************************************************************)
(* Texture teardown (vulkan_renderer.cpp:593-621).  No sparse texture is   *)
(* created by the operations modelled here, so the tile loop is empty.     *)
(***************************************************************************)
\* Mutant of destroyTexture: the recorded size is kept.
destroyTextureKeepsSize(s) ==
    LET s1 == IF s.textureImage_ # NULL
              THEN [Destroy(s, "vkDestroyImage", s.textureImage_)
                        EXCEPT !.textureImage_ = NULL]
              ELSE s
        s2 == IF s1.textureMemory_ # NULL
              THEN [Destroy(s1, "vkFreeMemory", s1.textureMemory_)
                        EXCEPT !.textureMemory_ = NULL]
              ELSE s1
    IN [s2 EXCEPT !.textureLayout_ = UNDEFINED, !.realLayout = UNDEFINED]

destroyTexture(s) ==
    LET s1 == IF s.textureImage_ # NULL
              THEN [Destroy(s, "vkDestroyImage", s.textureImage_)
                        EXCEPT !.textureImage_ = NULL]
              ELSE s
        s2 == IF s1.textureMemory_ # NULL
              THEN [Destroy(s1, "vkFreeMemory", s1.textureMemory_)
                        EXCEPT !.textureMemory_ = NULL]
              ELSE s1
    IN [s2 EXCEPT !.textureLayout_ = UNDEFINED,
                  !.realLayout = UNDEFINED,
                  !.textureDesc_ = [@ EXCEPT !.w = 0, !.h = 0]]

(***************************************************************************)
(* Shutdown (vulkan_renderer.cpp:678-782).  wait is the result of its      *)
(* vkDeviceWaitIdle.  The legacy single semaphores and fence and the       *)
(* library handle are never assigned anywhere, so their blocks do nothing. *)
(***************************************************************************)
destroySurfaceAndInstance(s) ==
    LET s1 == IF s.surface_ # NULL /\ s.instance_ # NULL
              THEN [Destroy(s, "vkDestroySurfaceKHR", s.surface_)
                        EXCEPT !.surface_ = NULL]
              ELSE s
    \* physicalDevice_ is left as it is: the handle outlives its instance.
    IN IF s1.instance_ # NULL
       THEN [Destroy(s1, "vkDestroyInstance", s1.instance_)
                 EXCEPT !.instance_ = NULL,
                        !.physicalDevice_ = IF @ = LIVE THEN DEAD ELSE @]
       ELSE s1

\* Mutant of Cleared: the member keeps the handle of the destroyed object.
ClearedNot(h) == h

\* The handle Shutdown leaves in a member after destroying the object.
Cleared(h) == NULL

destroySyncObjects(s) ==
    LET s1 == DestroyEach(s, "vkDestroySemaphore", s.imageAvailableSemaphores_, 1)
        s2 == DestroyEach(s1, "vkDestroySemaphore", s.renderFinishedSemaphores_, 1)
        s3 == DestroyEach(s2, "vkDestroyFence", s.inFlightFences_, 1)
    IN [s3 EXCEPT !.imageAvailableSemaphores_ = <<>>,
                  !.renderFinishedSemaphores_ = <<>>,
                  !.inFlightFences_ = <<>>]

Shutdown(s, wait) ==
    LET s0 == [s EXCEPT !.deviceLost_ = FALSE, !.swapchainOutOfDate_ = FALSE]
    IN IF s0.device_ = NULL
       THEN [destroySurfaceAndInstance(s0) EXCEPT !.outcome = "no device"]
       ELSE
         LET s1 == Log(s0, "vkDeviceWaitIdle", wait)
         IN IF wait = DEVICE_LOST
            THEN [destroySurfaceAndInstance(
                      NoDevice(OrphanChildren([s1 EXCEPT !.device_ = NULL])))
                      EXCEPT !.outcome = "device lost"]
            ELSE
              LET s2 == destroySyncObjects(destroySwapchain(destroyTexture(DrainQueue(s1))))
                  s3 == IF s2.commandPool_ # NULL
                        THEN [Destroy(s2, "vkDestroyCommandPool", s2.commandPool_)
                                EXCEPT !.commandPool_ = Cleared(@),
                                       !.commandBuffers_ =
                                           [i \in 1..Len(@) |->
                                               IF @[i] = LIVE THEN DEAD ELSE @[i]]]
                        ELSE s2
                  s4 == [Destroy(s3, "vkDestroyDevice", s3.device_)
                             EXCEPT !.device_ = Cleared(@)]
              IN [destroySurfaceAndInstance(NoDevice(s4))
                      EXCEPT !.outcome = "normal"]

\* The results vkDeviceWaitIdle can give Shutdown: success on a working device,
\* either answer on a lost one.
WaitResults(s) == IF s.gpuLost THEN {SUCCESS, DEVICE_LOST} ELSE {SUCCESS}

(***************************************************************************)
(* Initialize (vulkan_renderer.cpp:623-676) and the software fallback      *)
(* (vulkan_renderer.cpp:1712-1777).                                        *)
(***************************************************************************)
\* What GetClientRect reports to initializeSoftwareFallback.
ClientRects == {<<0, 0>>, <<1, 1>>}

initializeSoftwareFallback(s, rectOk, rect) ==
    LET s1 == [s EXCEPT !.fallbackHwnd_ = LIVE, !.vulkanAvailable_ = FALSE]
    IN IF ~rectOk THEN [s |-> s1, ok |-> FALSE]
       ELSE
         LET ext == IF rect[1] = 0 \/ rect[2] = 0 THEN <<FallbackW, FallbackH>> ELSE rect
         IN [s |-> [s1 EXCEPT !.fallbackExtent_ = ext,
                              !.fallbackBuffer_ = ext[1] * ext[2] * 4],
             ok |-> TRUE]

renderSoftwareFallback(s, width, height) ==
    IF s.fallbackBuffer_ = 0 \/ s.fallbackHwnd_ = NULL THEN s
    ELSE IF s.fallbackExtent_ # <<width, height>>
    THEN [s EXCEPT !.fallbackExtent_ = <<width, height>>,
                   !.fallbackBuffer_ = width * height * 4]
    ELSE s

\* What the driver and the host answer during one Initialize: the step that
\* fails ("ok" when none does), the answers to createSwapchain and
\* createSyncObjects, the result of the vkDeviceWaitIdle of the Shutdown a
\* failure runs, and the client rectangle.
InitEnv(stage, swap, sync, rectOk, rect) ==
    [stage |-> stage, swap |-> swap, sync |-> sync, rectOk |-> rectOk, rect |-> rect]
OkSwap == SwapEnv("ok", Undef, MinImages, 0)
InitEnvs ==
    {InitEnv("instance", OkSwap, 0, TRUE, r) : r \in ClientRects}
    \cup {InitEnv("instance", OkSwap, 0, FALSE, <<0, 0>>)}
    \cup {InitEnv(st, OkSwap, 0, TRUE, <<0, 0>>) :
             st \in {"surface", "enumerate", "noDevice", "device", "pool"}}
    \cup {InitEnv("swapchain", sw, 0, TRUE, <<0, 0>>) : sw \in SwapFailEnvs}
    \cup {InitEnv("sync", OkSwap, k, TRUE, <<0, 0>>) : k \in SyncFails \ {0}}
    \cup {InitEnv("ok", sw, 0, TRUE, <<0, 0>>) : sw \in SwapEnvs \ SwapFailEnvs}

\* The size Initialize(HWND) asks the first swapchain for.
InitialWidth == 800
InitialHeight == 600

\* Initialize's failure exit: Shutdown(), then return false.
failInitialize(s, stage) ==
    [Shutdown(s, IF s.gpuLost THEN DEVICE_LOST ELSE SUCCESS)
        EXCEPT !.outcome = "failed"]

\* The progress callback when one was given (vulkan_renderer.cpp:1901, 1905,
\* vulkan_progress.cpp:12-14): the percentage joins the record of the call.
reportNothing(s, cb, pct) == s
report(s, cb, pct) == IF cb THEN Log(s, "cb", pct) ELSE s

\* The steps Initialize and the InitializeWithProgress of vulkan_renderer.cpp
\* share; they differ in the size of the first swapchain and in the progress
\* callback, which Initialize does not have.
initializeSteps(s, hwndOk, cb, e, width, height) ==
    IF ~hwndOk THEN [s EXCEPT !.outcome = "failed"]
    ELSE
      LET s0 == report([s EXCEPT !.deviceLost_ = FALSE,
                                 !.swapchainOutOfDate_ = FALSE,
                                 !.vulkanAvailable_ = FALSE], cb, 5)
      IN IF e.stage = "instance"
         THEN LET f == initializeSoftwareFallback(
                           report(Log(s0, "vkCreateInstance", OOM), cb, 100),
                           e.rectOk, e.rect)
              IN [f.s EXCEPT !.outcome = IF f.ok THEN "fallback" ELSE "failed"]
         ELSE
      LET s1 == report([Log(s0, "vkCreateInstance", SUCCESS)
                           EXCEPT !.instance_ = LIVE], cb, 20)
      IN IF e.stage = "surface"
         THEN failInitialize([Log(s1, "vkCreateWin32SurfaceKHR", OOM)
                                 EXCEPT !.surface_ = NULL], "surface")
         ELSE
      LET s2 == report([Log(s1, "vkCreateWin32SurfaceKHR", SUCCESS)
                           EXCEPT !.surface_ = LIVE], cb, 35)
      IN IF e.stage = "enumerate"
         THEN failInitialize(Log(s2, "vkEnumeratePhysicalDevices", OOM), "enumerate")
         ELSE
      \* pickPhysicalDevice returns true whether or not a device qualified
      \* (vulkan_renderer.cpp:170-177).
      LET s3 == report(IF e.stage = "noDevice"
                       THEN Log(s2, "vkEnumeratePhysicalDevices", SUCCESS)
                       ELSE [Log(s2, "vkEnumeratePhysicalDevices", SUCCESS)
                                EXCEPT !.physicalDevice_ = LIVE], cb, 55)
      IN IF s3.physicalDevice_ = NULL THEN failInitialize(s3, "noDevice")
         ELSE IF s3.physicalDevice_ # LIVE
         THEN [Log(s3, "vkCreateDevice", s3.physicalDevice_)
                  EXCEPT !.halted = "dead physical device",
                         !.outcome = "failed"]
         ELSE IF e.stage = "device"
         THEN failInitialize(Log(s3, "vkCreateDevice", OOM), "device")
         ELSE
      LET s4 == report([Log(s3, "vkCreateDevice", SUCCESS)
                           EXCEPT !.device_ = LIVE, !.gpuLost = FALSE], cb, 65)
          p == createCommandPool(s4, IF e.stage = "pool" THEN OOM ELSE SUCCESS)
      IN IF ~p.ok THEN failInitialize(p.s, "pool")
         ELSE
      LET c == createSwapchain(report(p.s, cb, 80), width, height, e.swap)
      IN IF ~c.ok THEN failInitialize(c.s, "swapchain")
         ELSE
      LET y == createSyncObjects(report(c.s, cb, 90), e.sync)
      IN IF ~y.ok THEN failInitialize(y.s, "sync")
         ELSE [report(y.s, cb, 100) EXCEPT !.vulkanAvailable_ = TRUE,
                                            !.outcome = "ready"]

Initialize(s, hwndOk, e) ==
    initializeSteps(s, hwndOk, FALSE, e, InitialWidth, InitialHeight)

(***************************************************************************)
(* Resize and ClearErrorFlags (vulkan_renderer.cpp:784-788,                *)
(* vulkan_renderer.h:56).                                                  *)
(***************************************************************************)
\* Resize without its test for a zero size.
ResizeAnySize(s, width, height, e) ==
    IF s.swapchainExtent_ = <<width, height>>
    THEN [s EXCEPT !.outcome = "same size"]
    ELSE [recreateSwapchain(s, width, height, e) EXCEPT !.outcome = "recreated"]

\* Resize without its test for an unchanged size.
ResizeAlways(s, width, height, e) ==
    IF width = 0 \/ height = 0 THEN [s EXCEPT !.outcome = "zero size"]
    ELSE [recreateSwapchain(s, width, height, e) EXCEPT !.outcome = "recreated"]

Resize(s, width, height, e) ==
    IF width = 0 \/ height = 0 THEN [s EXCEPT !.outcome = "zero size"]
    ELSE IF s.swapchainExtent_ = <<width, height>>
    THEN [s EXCEPT !.outcome = "same size"]
    ELSE [recreateSwapchain(s, width, height, e) EXCEPT !.outcome = "recreated"]

ClearErrorFlags(s) ==
    [s EXCEPT !.deviceLost_ = FALSE, !.swapchainOutOfDate_ = FALSE,
              !.outcome = "cleared"]

(***************************************************************************)
(* Render (vulkan_renderer.cpp:1028-1286).                                 *)
(***************************************************************************)
\* What the driver answers during one Render: the answers to the swapchain
\* recreation on a size change (sw1) and to the one after an out-of-date
\* acquire (sw2), the acquired image (1-based), and the results of
\* vkAcquireNextImageKHR, vkBeginCommandBuffer, vkEndCommandBuffer,
\* vkQueueSubmit and vkQueuePresentKHR.
RenderEnv(sw1, sw2, image, acq, begin, end, submit, present) ==
    [sw1 |-> sw1, sw2 |-> sw2, image |-> image, acq |-> acq, begin |-> begin,
     end |-> end, submit |-> submit, present |-> present]

AcquireResults == {SUCCESS, SUBOPTIMAL, OUT_OF_DATE, DEVICE_LOST, SURFACE_LOST}
SubmitResults == {SUCCESS, DEVICE_LOST, OOM}
PresentResults == {SUCCESS, SUBOPTIMAL, OUT_OF_DATE, DEVICE_LOST, SURFACE_LOST}

\* Mutant of FrameSlot: every frame uses the first slot.
FrameSlotFirst(s) == 0

\* The slot Render works with, and its name in the call log.
FrameSlot(s) == s.currentFrame_
SlotName(i) == IF i = 0 THEN "slot 0" ELSE "slot 1"

\* Mutant of NextFrame: the frame counter is not advanced.
NextFrameStuck(f) == f

\* The frame counter after a frame that was submitted and presented.
NextFrame(f) == (f + 1) % MAX_FRAMES_IN_FLIGHT

\* Mutant of waitForFence: the wait has a zero timeout and returns at once.
waitForFencePolling(s) ==
    Log(s, "vkWaitForFences",
        IF s.fenceSignaled[s.currentFrame_] THEN SUCCESS ELSE "VK_TIMEOUT")

\* Mutant of waitForFence: the fence is reset as soon as the wait has returned.
waitForFenceAndReset(s) ==
    IF s.fenceSignaled[s.currentFrame_]
    THEN [Log(Log(s, "vkWaitForFences", SUCCESS), "vkResetFences",
              SlotName(s.currentFrame_))
             EXCEPT !.fenceSignaled[s.currentFrame_] = FALSE]
    ELSE [s EXCEPT !.halted = "blocked"]

\* vkWaitForFences on the slot's fence with no timeout; its result is not
\* looked at (vulkan_renderer.cpp:1069).  A signaled fence lets it return at
\* once.  Otherwise it returns when the outstanding submission completes (the
\* call is then not finished in this state: "blocked"), returns
\* VK_ERROR_DEVICE_LOST on a lost device, which retires the submission, and
\* never returns when nothing will ever signal the fence.
waitForFence(s) ==
    LET i == FrameSlot(s)
    IN IF s.fenceSignaled[i] THEN Log(s, "vkWaitForFences", SUCCESS)
       ELSE IF s.gpuLost
       THEN [Log(s, "vkWaitForFences", DEVICE_LOST) EXCEPT !.outstanding[i] = 0]
       ELSE IF s.outstanding[i] > 0
       THEN [s EXCEPT !.halted = "blocked"]
       ELSE [Log(s, "vkWaitForFences", "never returns")
                EXCEPT !.halted = "fence wait never returns"]

\* A Vulkan call that can report the loss of the device.
Lose(s, res) == IF res = DEVICE_LOST THEN [s EXCEPT !.gpuLost = TRUE] ELSE s

\* Clear, then the blit of the texture or the instructional overlay, then the
\* present transition (vulkan_renderer.cpp:1088-1234).
recordFrame(s) ==
    LET s1 == Log(s, "vkCmdClearColorImage", "-")
    IN IF s1.textureImage_ # NULL /\ s1.textureLayout_ = TRANSFER_SRC
       THEN Log(s1, "vkCmdBlitImage", s1.textureImage_)
       ELSE Log(s1, "RenderInstructionalUI", "-")

\* What Render does with the result of vkQueueSubmit (vulkan_renderer.cpp:1255-1263).
SubmitFailed(sr) == sr # SUCCESS

\* Mutant of presentFailed: every failed present is taken for a lost device.
presentFailedAsLost(s, pr) == [s EXCEPT !.deviceLost_ = TRUE, !.outcome = "present lost"]

\* What Render does with the result of vkQueuePresentKHR other than VK_SUCCESS
\* (vulkan_renderer.cpp:1272-1282).
presentFailed(s, pr) ==
    IF pr = OUT_OF_DATE \/ pr = SUBOPTIMAL
    THEN [s EXCEPT !.swapchainOutOfDate_ = TRUE, !.outcome = "present stale"]
    ELSE IF pr = DEVICE_LOST
    THEN [s EXCEPT !.deviceLost_ = TRUE, !.outcome = "present lost"]
    ELSE [s EXCEPT !.swapchainOutOfDate_ = TRUE, !.outcome = "present failed"]

\* From the reset of the slot's fence to the end of Render
\* (vulkan_renderer.cpp:1252-1285).
submitAndPresent(s, e) ==
    LET i == FrameSlot(s)
        s1 == [Log(s, "vkResetFences", SlotName(i)) EXCEPT !.fenceSignaled[i] = FALSE]
        sr == IF s1.gpuLost THEN DEVICE_LOST ELSE e.submit
        s2 == Lose(Log(s1, "vkQueueSubmit", sr), sr)
    IN IF SubmitFailed(sr)
       THEN [s2 EXCEPT !.deviceLost_ = TRUE, !.outcome = "submit failed"]
       ELSE
         \* the submission is now outstanding; its completion signals the fence
         LET pr == e.present
             s3 == Lose(Log([s2 EXCEPT !.outstanding[i] = @ + 1],
                            "vkQueuePresentKHR", pr), pr)
         IN IF pr # SUCCESS THEN presentFailed(s3, pr)
            ELSE [s3 EXCEPT !.currentFrame_ = NextFrame(@), !.outcome = "presented"]

\* The check at the top of Render that keeps a lost device from being used
\* (vulkan_renderer.cpp:1044-1046).
DeviceLostGate(s) == s.deviceLost_

\* What Render does when the acquire returns VK_ERROR_OUT_OF_DATE_KHR
\* (vulkan_renderer.cpp:1073-1076).
acquireOutOfDate(s, width, height, e) ==
    [recreateSwapchain(s, width, height, e.sw2) EXCEPT !.outcome = "acquire out of date"]

\* From the fence wait on (vulkan_renderer.cpp:1064-1286).
renderFrame(s, width, height, e) ==
    IF Len(s.inFlightFences_) <= FrameSlot(s)
    THEN [s EXCEPT !.halted = "no sync ring", !.outcome = "halted"]
    ELSE
      LET s1 == waitForFence(s)
      IN IF s1.halted # "no" THEN [s1 EXCEPT !.outcome = "halted"]
         ELSE IF s1.swapchain_ = NULL
         THEN [Log(s1, "vkAcquireNextImageKHR", NULL)
                  EXCEPT !.halted = "null swapchain", !.outcome = "halted"]
         ELSE
      LET s2 == Lose(Log(s1, "vkAcquireNextImageKHR", e.acq), e.acq)
      IN IF e.acq = OUT_OF_DATE THEN acquireOutOfDate(s2, width, height, e)
         ELSE
      \* imageIndex stays 0 when the acquire failed (vulkan_renderer.cpp:1071)
      LET img == IF e.acq \in {SUCCESS, SUBOPTIMAL} THEN e.image ELSE 1
      IN IF img > Len(s2.commandBuffers_) \/ s2.commandBuffers_[img] # LIVE
         THEN [Log(s2, "vkResetCommandBuffer",
                   IF img > Len(s2.commandBuffers_) THEN "out of range"
                   ELSE s2.commandBuffers_[img])
                  EXCEPT !.halted = "invalid command buffer", !.outcome = "halted"]
         ELSE
      LET s3 == Log(Log(s2, "vkResetCommandBuffer", "-"), "vkBeginCommandBuffer", e.begin)
      IN IF e.begin # SUCCESS THEN [s3 EXCEPT !.outcome = "begin failed"]
         ELSE
      LET s4 == Log(recordFrame(s3), "vkEndCommandBuffer", e.end)
      IN IF e.end # SUCCESS THEN [s4 EXCEPT !.outcome = "end failed"]
         ELSE submitAndPresent(s4, e)

\* Mutant of NothingToDrawOn: only the swapchain is tested.
NothingToDrawOnSwapchain(s) == s.swapchain_ = NULL

\* The check of Render for a missing device or swapchain
\* (vulkan_renderer.cpp:1056).
NothingToDrawOn(s) == s.device_ = NULL \/ s.swapchain_ = NULL

Render(s, width, height, e) ==
    IF width = 0 \/ height = 0 \/ width > MaxSide \/ height > MaxSide
    THEN [s EXCEPT !.outcome = "bad size"]
    ELSE IF ~s.vulkanAvailable_
    THEN [renderSoftwareFallback(s, width, height) EXCEPT !.outcome = "software"]
    ELSE IF DeviceLostGate(s) THEN [s EXCEPT !.outcome = "device lost"]
    ELSE IF NothingToDrawOn(s) THEN [s EXCEPT !.outcome = "no device"]
    ELSE renderFrame(IF s.swapchainExtent_ # <<width, height>>
                     THEN recreateSwapchain(s, width, height, e.sw1)
                     ELSE s,
                     width, height, e)

\* Render gets as far as the driver (vulkan_renderer.cpp:1033-1058).
RenderUsesDriver(s, width, height) ==
    /\ <<width, height>> \notin BadSizes
    /\ s.vulkanAvailable_ /\ ~s.deviceLost_
    /\ s.device_ # NULL /\ s.swapchain_ # NULL

\* The frame in which every call succeeds, on image 1.
QuietFrame == RenderEnv(OkSwap, OkSwap, 1, SUCCESS, SUCCESS, SUCCESS, SUCCESS, SUCCESS)

\* The ways a frame on a swapchain of n images can go, one driver call
\* departing from QuietFrame at a time: the image acquired and the result of
\* the present; a failing begin, end or submit; an acquire that does not
\* succeed, with every answer to the recreation after an out-of-date one.
Frames(n, swaps) ==
    {[QuietFrame EXCEPT !.image = k, !.present = r] : k \in 1..n, r \in PresentResults}
    \cup {[QuietFrame EXCEPT !.begin = OOM], [QuietFrame EXCEPT !.end = OOM]}
    \cup {[QuietFrame EXCEPT !.submit = r] : r \in SubmitResults}
    \cup {[QuietFrame EXCEPT !.acq = a] : a \in AcquireResults}
    \cup {[QuietFrame EXCEPT !.acq = OUT_OF_DATE, !.sw2 = b] : b \in swaps}

\* The driver answers that matter to Render(width, height) in state s.  A
\* Render that first recreates the swapchain for a new size gets every answer
\* to that recreation followed by a quiet frame, and every frame after a
\* recreation that went well.
RenderEnvs(s, width, height, swaps) ==
    IF ~RenderUsesDriver(s, width, height) THEN {QuietFrame}
    ELSE IF s.swapchainExtent_ # <<width, height>>
    THEN {[QuietFrame EXCEPT !.sw1 = a] : a \in swaps} \cup Frames(MinImages, swaps)
    ELSE Frames(s.swapchainImages_, swaps)

(***************************************************************************)
(* UpdateImageFromData (vulkan_renderer.cpp:907-983) with the single-use   *)
(* command buffers it records its three steps in                           *)
(* (vulkan_renderer.cpp:316-384, 822-905).                                 *)
(***************************************************************************)
MaxPixels == 67108864
\* A side whose square is above the pixel-count cap, though below the side cap.
BigSide == 8193
\* The arguments <<pixels given, width, height, isHdr>> a caller passes: one for
\* each way they are refused, and the valid ones.
UpdateArgs ==
    {<<FALSE, 1, 1, FALSE>>, <<TRUE, BigSide, BigSide, FALSE>>}
    \cup {<<TRUE, z[1], z[2], FALSE>> : z \in BadSizes}
    \cup {<<TRUE, z[1], z[2], hdr>> : z \in ValidSizes, hdr \in BOOLEAN}

\* How one single-use command buffer goes: "ok"; "fail", an allocation, begin,
\* end or submit error that is not a device loss; "lost", VK_ERROR_DEVICE_LOST
\* from the submit or from the vkQueueWaitIdle after it.
OneShots == {"ok", "fail", "lost"}

\* beginSingleTimeCommands .. endSingleTimeCommands around one recorded
\* command.  ok tells whether the command was executed.
singleTimeCommands(s, cmd, what, how) ==
    IF s.device_ = NULL \/ s.commandPool_ = NULL
    THEN [s |-> s, ok |-> FALSE]
    ELSE
      LET r == IF s.gpuLost /\ how = "ok" THEN "lost" ELSE how
      IN IF r = "fail"
         THEN [s |-> Log(s, "vkAllocateCommandBuffers", OOM), ok |-> FALSE]
         ELSE IF r = "lost"
         THEN [s |-> [Log(Log(s, cmd, what), "vkQueueSubmit", DEVICE_LOST)
                         EXCEPT !.deviceLost_ = TRUE, !.gpuLost = TRUE],
               ok |-> FALSE]
         ELSE [s |-> DrainQueue(Log(Log(Log(s, cmd, what), "vkQueueSubmit", SUCCESS),
                                    "vkQueueWaitIdle", SUCCESS)),
               ok |-> TRUE]

\* The oldLayout and newLayout of an image memory barrier.
LayoutChange(oldLayout, newLayout) == oldLayout \o " -> " \o newLayout

transitionImageLayout(s, image, oldLayout, newLayout, how) ==
    IF image = NULL THEN s
    ELSE LET r == singleTimeCommands(s, "vkCmdPipelineBarrier",
                                     LayoutChange(oldLayout, newLayout), how)
         IN IF r.ok THEN [r.s EXCEPT !.realLayout = newLayout] ELSE r.s

copyBufferToImage(s, image, width, height, how) ==
    IF image = NULL \/ width = 0 \/ height = 0 THEN s
    ELSE singleTimeCommands(s, "vkCmdCopyBufferToImage", "-", how).s

\* createTexture (vulkan_renderer.cpp:542-591).  how: "ok", or the call that
\* fails: "image", "memtype", "alloc".
TextureHows == {"ok", "image", "memtype", "alloc"}
createTexture(s, width, height, isHdr, how) ==
    LET s0 == [destroyTexture(s) EXCEPT !.textureDesc_.hdr = isHdr]
    IN IF how = "image"
       THEN [s |-> Log(s0, "vkCreateImage", OOM), ok |-> FALSE]
       ELSE
         LET s1 == [Log(s0, "vkCreateImage", SUCCESS) EXCEPT !.textureImage_ = LIVE]
         IN IF how = "memtype"
            THEN [s |-> [Destroy(s1, "vkDestroyImage", s1.textureImage_)
                            EXCEPT !.textureImage_ = NULL],
                  ok |-> FALSE]
            ELSE IF how = "alloc"
            THEN [s |-> [Destroy(Log(s1, "vkAllocateMemory", OOM),
                                 "vkDestroyImage", s1.textureImage_)
                            EXCEPT !.textureImage_ = NULL],
                  ok |-> FALSE]
            ELSE [s |-> [Log(s1, "vkAllocateMemory", SUCCESS)
                            EXCEPT !.textureMemory_ = LIVE,
                                   !.textureLayout_ = UNDEFINED,
                                   !.realLayout = UNDEFINED,
                                   !.textureDesc_ = [w |-> width, h |-> height,
                                                     hdr |-> isHdr]],
                  ok |-> TRUE]

\* createStagingBuffer (vulkan_renderer.cpp:790-820).  how: "ok", or the step
\* that fails: "buffer" (vkCreateBuffer), "memtype" (no host-visible memory
\* type), "alloc" (vkAllocateMemory).
StagingHows == {"ok", "buffer", "memtype", "alloc"}
createStagingBuffer(s, how) ==
    IF how = "buffer" THEN [s |-> Log(s, "vkCreateBuffer", OOM), ok |-> FALSE]
    ELSE
      LET s1 == Log(s, "vkCreateBuffer", SUCCESS)
      IN IF how = "memtype"
         THEN [s |-> Log(s1, "vkDestroyBuffer", LIVE), ok |-> FALSE]
         ELSE IF how = "alloc"
         THEN [s |-> Log(Log(s1, "vkAllocateMemory", OOM), "vkDestroyBuffer", LIVE),
               ok |-> FALSE]
         ELSE [s |-> Log(s1, "vkAllocateMemory", SUCCESS), ok |-> TRUE]

\* What the driver answers during one UpdateImageFromData: how createTexture
\* goes, whether the staging buffer is created and mapped, and how each of the
\* three single-use command buffers goes.
UpdateEnv(tex, staging, map, t1, copy, t2) ==
    [tex |-> tex, staging |-> staging, map |-> map, t1 |-> t1, copy |-> copy, t2 |-> t2]
UpdateEnvs ==
    {UpdateEnv(x, "ok", TRUE, "ok", "ok", "ok") : x \in TextureHows \ {"ok"}}
    \cup {UpdateEnv("ok", "ok", FALSE, "ok", "ok", "ok")}
    \cup {UpdateEnv("ok", x, TRUE, "ok", "ok", "ok") : x \in StagingHows \ {"ok"}}
    \cup {UpdateEnv("ok", "ok", TRUE, "ok", "ok", "ok")}
    \cup {UpdateEnv("ok", "ok", TRUE, x, "ok", "ok") : x \in OneShots}
    \cup {UpdateEnv("ok", "ok", TRUE, "ok", x, "ok") : x \in OneShots}
    \cup {UpdateEnv("ok", "ok", TRUE, "ok", "ok", x) : x \in OneShots}

\* UpdateImageFromData gets as far as the driver (vulkan_renderer.cpp:908-927).
UpdateUsesDriver(s, hasPixels, width, height) ==
    /\ hasPixels /\ <<width, height>> \in ValidSizes
    /\ ~s.deviceLost_ /\ s.device_ # NULL

\* releaseStaging without the release of the memory.
releaseStagingBuffer(s) == Log(s, "vkDestroyBuffer", LIVE)

\* The staging buffer of one upload, released at the end of it.
releaseStaging(s) == Log(Log(s, "vkDestroyBuffer", LIVE), "vkFreeMemory", LIVE)

\* UpdateGuards without the test of the device-lost flag.
UpdateGuardsOfArguments(s, hasPixels, width, height) ==
    IF ~hasPixels \/ width = 0 \/ height = 0 THEN "bad argument"
    ELSE IF width > MaxSide \/ height > MaxSide THEN "too large"
    ELSE IF width * height > MaxPixels THEN "too many pixels"
    ELSE "-"

\* The checks UpdateImageFromData starts with, in their order: the one that
\* makes it return, "-" when none does (vulkan_renderer.cpp:908-927).
UpdateGuards(s, hasPixels, width, height) ==
    IF ~hasPixels \/ width = 0 \/ height = 0 THEN "bad argument"
    ELSE IF width > MaxSide \/ height > MaxSide THEN "too large"
    ELSE IF width * height > MaxPixels THEN "too many pixels"
    ELSE IF s.deviceLost_ THEN "device lost"
    ELSE "-"

\* needNewTexture without the comparison of the format.
needNewTextureBySize(s, width, height, isHdr) ==
    \/ s.textureDesc_.w # width \/ s.textureDesc_.h # height
    \/ s.textureImage_ = NULL

\* The held texture cannot take the upload (vulkan_renderer.cpp:932-933).
needNewTexture(s, width, height, isHdr) ==
    \/ s.textureDesc_.w # width \/ s.textureDesc_.h # height
    \/ s.textureDesc_.hdr # isHdr \/ s.textureImage_ = NULL

UpdateImageFromData(s, hasPixels, width, height, isHdr, e) ==
    IF UpdateGuards(s, hasPixels, width, height) # "-"
    THEN [s EXCEPT !.outcome = UpdateGuards(s, hasPixels, width, height)]
    ELSE IF s.device_ = NULL THEN [s EXCEPT !.outcome = "no device"]
    ELSE
      LET need == needNewTexture(s, width, height, isHdr)
          c == IF need THEN createTexture(s, width, height, isHdr, e.tex)
               ELSE [s |-> s, ok |-> TRUE]
      IN IF ~c.ok
         THEN [c.s EXCEPT !.deviceLost_ = TRUE, !.outcome = "texture failed"]
         ELSE IF ~createStagingBuffer(c.s, e.staging).ok
         THEN [createStagingBuffer(c.s, e.staging).s EXCEPT !.outcome = "staging failed"]
         ELSE
      LET s1 == createStagingBuffer(c.s, e.staging).s
      IN IF ~e.map
         THEN [releaseStaging(Log(s1, "vkMapMemory", OOM)) EXCEPT !.outcome = "map failed"]
         ELSE
      LET s2 == transitionImageLayout(Log(s1, "vkMapMemory", SUCCESS), s1.textureImage_,
                                      s1.textureLayout_, TRANSFER_DST, e.t1)
          s3 == IF s2.deviceLost_ THEN s2
                ELSE copyBufferToImage(s2, s2.textureImage_, width, height, e.copy)
          s4 == IF s3.deviceLost_ THEN s3
                ELSE transitionImageLayout(s3, s3.textureImage_, TRANSFER_DST,
                                           TRANSFER_SRC, e.t2)
          s5 == IF s4.deviceLost_ THEN s4 ELSE [s4 EXCEPT !.textureLayout_ = TRANSFER_SRC]
      IN [releaseStaging(s5) EXCEPT !.outcome = IF s5.deviceLost_ THEN "upload lost"
                                                ELSE "uploaded"]

(***************************************************************************)
(* The public operations as actions, and the GPU.                          *)
(***************************************************************************)
\* A public call starts with an empty call log.
Begin(op) == [Cur EXCEPT !.lastOp = op, !.calls = <<>>, !.outcome = "-"]

\* Initialize is called on an object that holds no instance and no device: a new
\* one, or one that was shut down (main_win32.cpp:456-459).
InitializeCall(envs) ==
    /\ halted = "no"
    /\ instance_ = NULL /\ device_ = NULL
    /\ \E hwndOk \in BOOLEAN :
         \E e \in (IF hwndOk THEN envs ELSE {InitEnv("ok", OkSwap, 0, TRUE, <<0, 0>>)}) :
            Assign(Initialize(Begin("Initialize"), hwndOk, e))

ShutdownCall ==
    /\ halted = "no"
    /\ \E wait \in WaitResults(Cur) : Assign(Shutdown(Begin("Shutdown"), wait))

ResizeCall(sizes, swaps) ==
    /\ halted = "no"
    /\ \E z \in sizes :
         \E e \in (IF z[1] # 0 /\ z[2] # 0 /\ swapchainExtent_ # z /\ device_ # NULL
                   THEN swaps ELSE {OkSwap}) :
            Assign(Resize(Begin("Resize"), z[1], z[2], e))

ClearErrorFlagsCall ==
    /\ halted = "no"
    /\ Assign(ClearErrorFlags(Begin("ClearErrorFlags")))

\* A Render whose fence wait cannot return yet is not a step: the call
\* completes after the GPU has.
RenderCall(sizes, swaps) ==
    /\ halted = "no"
    /\ \E z \in sizes :
         \E e \in RenderEnvs(Cur, z[1], z[2], swaps) :
            LET s == Render(Begin("Render"), z[1], z[2], e)
            IN s.halted # "blocked" /\ Assign(s)

UpdateImageFromDataCall(args, envs) ==
    /\ halted = "no"
    /\ \E a \in args :
         \E e \in (IF UpdateUsesDriver(Cur, a[1], a[2], a[3])
                   THEN envs ELSE {UpdateEnv("ok", "ok", TRUE, "ok", "ok", "ok")}) :
            Assign(UpdateImageFromData(Begin("UpdateImageFromData"),
                                       a[1], a[2], a[3], a[4], e))

\* The GPU finishes the submission of slot i and signals its fence.
GpuComplete ==
    /\ halted = "no"
    /\ \E i \in Slots :
         /\ outstanding[i] > 0
         /\ outstanding' = [outstanding EXCEPT ![i] = @ - 1]
         /\ fenceSignaled' = [fenceSignaled EXCEPT ![i] = TRUE]
    /\ lastOp' = "GpuComplete" /\ outcome' = "-" /\ calls' = <<>>
    /\ UNCHANGED <<instance_, surface_, physicalDevice_, device_, commandPool_,
          swapchain_, swapchainExtent_, swapchainImages_, swapchainImageViews_,
          commandBuffers_,
          imageAvailableSemaphores_, renderFinishedSemaphores_, inFlightFences_,
          currentFrame_,
          textureImage_, textureMemory_, textureLayout_, textureDesc_,
          deviceLost_, swapchainOutOfDate_, vulkanAvailable_,
          fallbackHwnd_, fallbackExtent_, fallbackBuffer_,
          gpuLost, realLayout, halted>>

\* The logical device is lost.
GpuLose ==
    /\ halted = "no"
    /\ device_ # NULL /\ ~gpuLost
    /\ gpuLost' = TRUE
    /\ lastOp' = "GpuLose" /\ outcome' = "-" /\ calls' = <<>>
    /\ UNCHANGED <<instance_, surface_, physicalDevice_, device_, commandPool_,
          swapchain_, swapchainExtent_, swapchainImages_, swapchainImageViews_,
          commandBuffers_,
          imageAvailableSemaphores_, renderFinishedSemaphores_, inFlightFences_,
          currentFrame_,
          textureImage_, textureMemory_, textureLayout_, textureDesc_,
          deviceLost_, swapchainOutOfDate_, vulkanAvailable_,
          fallbackHwnd_, fallbackExtent_, fallbackBuffer_,
          fenceSignaled, outstanding, realLayout, halted>>

(***************************************************************************)
(* The frame loop: every public operation, with the driver answers that    *)
(* bear on the frame ring, the two error flags and the swapchain.  The     *)
(* swapchain always has MinImages images, one texture size is uploaded,    *)
(* and vkCreateInstance succeeds (the software fallback is not entered     *)
(* through Initialize).                                                    *)
(***************************************************************************)
ZeroSizes == {<<0, 1>>, <<1, 0>>}
FrameSwapEnvs ==
    {OkSwap, SwapEnv("createFail", Undef, MinImages, 0),
     SwapEnv("viewFail", Undef, MinImages, MinImages)}
FrameInitEnvs == {e \in InitEnvs : e.stage # "instance" /\ e.swap \in FrameSwapEnvs}
FrameUpdateArgs ==
    {a \in UpdateArgs : <<a[2], a[3]>> \in ValidSizes => a = <<TRUE, 1, 1, FALSE>>}
FrameUpdateEnvs ==
    {UpdateEnv("ok", "ok", TRUE, "ok", "ok", "ok"),
     UpdateEnv("image", "ok", TRUE, "ok", "ok", "ok"),
     UpdateEnv("ok", "ok", TRUE, "lost", "ok", "ok")}

Next ==
    \/ InitializeCall(FrameInitEnvs) /\ UNCHANGED <<appVars, fnVars>>
    \/ ShutdownCall /\ UNCHANGED <<appVars, fnVars>>
    \/ ResizeCall(ValidSizes \cup ZeroSizes, FrameSwapEnvs) /\ UNCHANGED <<appVars, fnVars>>
    \/ ClearErrorFlagsCall /\ UNCHANGED <<appVars, fnVars>>
    \/ RenderCall(Sizes, FrameSwapEnvs) /\ UNCHANGED <<appVars, fnVars>>
    \/ UpdateImageFromDataCall(FrameUpdateArgs, FrameUpdateEnvs) /\ UNCHANGED <<appVars, fnVars>>
    \/ GpuComplete /\ UNCHANGED <<appVars, fnVars>>
    \/ GpuLose /\ UNCHANGED <<appVars, fnVars>>

Spec == Init /\ [][Next]_vars

(***************************************************************************)
(* The texture: uploads of every size and format, with every driver answer *)
(* an upload can get, between frames on a swapchain that stays in date.    *)
(***************************************************************************)
TexInitEnvs == {InitEnv("ok", OkSwap, 0, TRUE, <<0, 0>>)}

TexNext ==
    \/ InitializeCall(TexInitEnvs) /\ UNCHANGED <<appVars, fnVars>>
    \/ ShutdownCall /\ UNCHANGED <<appVars, fnVars>>
    \/ ClearErrorFlagsCall /\ UNCHANGED <<appVars, fnVars>>
    \/ RenderCall({<<1, 1>>}, {OkSwap}) /\ UNCHANGED <<appVars, fnVars>>
    \/ UpdateImageFromDataCall(UpdateArgs, UpdateEnvs) /\ UNCHANGED <<appVars, fnVars>>
    \/ GpuComplete /\ UNCHANGED <<appVars, fnVars>>
    \/ GpuLose /\ UNCHANGED <<appVars, fnVars>>

TexSpec == Init /\ [][TexNext]_vars

(***************************************************************************)
(* The application around the renderer: start-up and the deferred reset of *)
(* the main loop (main_win32.cpp:368-376, 439-485) and the painting of a   *)
(* frame (image_drawing.cpp:76-260).                                       *)
(***************************************************************************)
\* The SRW lock: shared access waits for an exclusive holder to leave,
\* exclusive access for every holder to leave.
CanLockShared(l) == ~l.exclusive

\* Mutant of CanLockExclusive: the exclusive request does not wait for readers.
CanLockExclusiveOverReaders(l) == ~l.exclusive

CanLockExclusive(l) == l.shared = 0 /\ ~l.exclusive

\* A new VulkanRenderer object: every field at its member initializer
\* (vulkan_renderer.h:60-126); the driver's side is not touched.
Constructed(s) ==
    [s EXCEPT !.instance_ = NULL, !.surface_ = NULL, !.physicalDevice_ = NULL,
              !.device_ = NULL, !.commandPool_ = NULL, !.swapchain_ = NULL,
              !.swapchainExtent_ = <<0, 0>>, !.swapchainImages_ = 0,
              !.swapchainImageViews_ = <<>>, !.commandBuffers_ = <<>>,
              !.imageAvailableSemaphores_ = <<>>,
              !.renderFinishedSemaphores_ = <<>>, !.inFlightFences_ = <<>>,
              !.currentFrame_ = 0,
              !.textureImage_ = NULL, !.textureMemory_ = NULL,
              !.textureLayout_ = UNDEFINED, !.textureDesc_ = NoTexture,
              !.deviceLost_ = FALSE, !.swapchainOutOfDate_ = FALSE,
              !.vulkanAvailable_ = FALSE,
              !.fallbackHwnd_ = NULL, !.fallbackExtent_ = <<FallbackW, FallbackH>>,
              !.fallbackBuffer_ = 0]

\* A side of the client rectangle as the start-up and the reset use it: at
\* least 1 (vulkan_progress.cpp:50-51, main_win32.cpp:471-472).
AtLeastOne(d) == IF d > 0 THEN d ELSE 1

\* The InitializeWithProgress of vulkan_renderer.cpp:1890-1956: Initialize with
\* the first swapchain sized by the client rectangle.
InitializeWithProgressOfRenderer(s, hwndOk, cb, e) ==
    initializeSteps(s, hwndOk, cb, e, AtLeastOne(e.rect[1]), AtLeastOne(e.rect[2]))

\* InitializeWithProgress (vulkan_progress.cpp:11-72): the steps of Initialize
\* with the swapchain sized by the client rectangle; a failing step returns
\* false and leaves what was built; there is no software fallback.
\* The exit of a failing step: the callback hears 100 and the call returns
\* false (vulkan_progress.cpp:18-21).
failWithProgress(s, cb) == [report(s, cb, 100) EXCEPT !.outcome = "failed"]

InitializeWithProgress(s, cb, e) ==
    LET s0 == report(s, cb, 5)
    IN IF e.stage = "instance"
    THEN failWithProgress(Log(s0, "vkCreateInstance", OOM), cb)
    ELSE
      LET s1 == report([Log(s0, "vkCreateInstance", SUCCESS)
                           EXCEPT !.instance_ = LIVE], cb, 20)
      IN IF e.stage = "surface"
         THEN failWithProgress(Log(s1, "vkCreateWin32SurfaceKHR", OOM), cb)
         ELSE
      LET s2 == report([Log(s1, "vkCreateWin32SurfaceKHR", SUCCESS)
                           EXCEPT !.surface_ = LIVE], cb, 35)
      IN IF e.stage = "enumerate"
         THEN failWithProgress(Log(s2, "vkEnumeratePhysicalDevices", OOM), cb)
         ELSE
      LET s3 == report(IF e.stage = "noDevice"
                       THEN Log(s2, "vkEnumeratePhysicalDevices", SUCCESS)
                       ELSE [Log(s2, "vkEnumeratePhysicalDevices", SUCCESS)
                                EXCEPT !.physicalDevice_ = LIVE], cb, 55)
      IN IF s3.physicalDevice_ = NULL THEN failWithProgress(s3, cb)
         ELSE IF e.stage = "device"
         THEN failWithProgress(Log(s3, "vkCreateDevice", OOM), cb)
         ELSE
      LET s4 == report([Log(s3, "vkCreateDevice", SUCCESS)
                           EXCEPT !.device_ = LIVE, !.gpuLost = FALSE], cb, 65)
          p == createCommandPool(s4, IF e.stage = "pool" THEN OOM ELSE SUCCESS)
      IN IF ~p.ok THEN failWithProgress(p.s, cb)
         ELSE
      LET c == createSwapchain(report(p.s, cb, 80), AtLeastOne(e.rect[1]),
                               AtLeastOne(e.rect[2]), e.swap)
      IN IF ~c.ok THEN failWithProgress(c.s, cb)
         ELSE
      LET y == createSyncObjects(report(c.s, cb, 90), e.sync)
      IN IF ~y.ok THEN failWithProgress(y.s, cb)
         ELSE report([y.s EXCEPT !.vulkanAvailable_ = TRUE, !.outcome = "ready"],
                     cb, 100)

\* The driver answers and the inputs of the application's calls.
AppSwapEnvs == {OkSwap, SwapEnv("createFail", Undef, MinImages, 0)}
AppStartEnvs ==
    {InitEnv("ok", OkSwap, 0, TRUE, r) : r \in ValidSizes \cup {<<0, 0>>}}
    \cup {InitEnv("device", OkSwap, 0, TRUE, <<0, 0>>)}
AppInitEnvs ==
    {InitEnv("ok", OkSwap, 0, TRUE, <<0, 0>>),
     InitEnv("device", OkSwap, 0, TRUE, <<0, 0>>)}
AppUpdateEnvs ==
    {UpdateEnv("ok", "ok", TRUE, "ok", "ok", "ok"),
     UpdateEnv("ok", "ok", TRUE, "lost", "ok", "ok")}

\* A step of the application that does not call the renderer.
AppStep(name) ==
    /\ lastOp' = name /\ outcome' = "-" /\ calls' = <<>>
    /\ UNCHANGED <<instance_, surface_, physicalDevice_, device_, commandPool_,
          swapchain_, swapchainExtent_, swapchainImages_, swapchainImageViews_,
          commandBuffers_,
          imageAvailableSemaphores_, renderFinishedSemaphores_, inFlightFences_,
          currentFrame_,
          textureImage_, textureMemory_, textureLayout_, textureDesc_,
          deviceLost_, swapchainOutOfDate_, vulkanAvailable_,
          fallbackHwnd_, fallbackExtent_, fallbackBuffer_,
          gpuLost, fenceSignaled, outstanding, realLayout, halted>>

\* wWinMain builds the renderer before the window is shown; a failure ends
\* the program (main_win32.cpp:368-376).  The sources define
\* InitializeWithProgress twice; the program runs either.
AppStart ==
    /\ halted = "no" /\ resetPc = "start"
    /\ \E e \in AppStartEnvs, inRenderer \in BOOLEAN :
         LET s == IF inRenderer
                  THEN InitializeWithProgressOfRenderer(
                           Begin("InitializeWithProgress"), TRUE, TRUE, e)
                  ELSE InitializeWithProgress(Begin("InitializeWithProgress"),
                                              TRUE, e)
         IN /\ Assign(s)
            /\ resetPc' = IF s.outcome = "ready" THEN "loop" ELSE "exit"
    /\ UNCHANGED <<renderer, rendererNeedsReset, renderInProgress, renderLock,
                   lastImage, drawPc>>
    /\ UNCHANGED fnVars

\* ---- DrawImage (image_drawing.cpp:95-260)
\* SrwSharedGuard's constructor (image_drawing.cpp:77-79, 106).
DrawLock ==
    /\ halted = "no" /\ resetPc \notin {"start", "exit"}
    /\ drawPc = "idle" /\ CanLockShared(renderLock)
    /\ renderLock' = [renderLock EXCEPT !.shared = @ + 1]
    /\ drawPc' = "locked"
    /\ AppStep("DrawImage")
    /\ UNCHANGED <<renderer, rendererNeedsReset, renderInProgress, lastImage, resetPc>>
    /\ UNCHANGED fnVars

\* RenderInProgressGuard's constructor (image_drawing.cpp:87-89, 107).
DrawMark ==
    /\ halted = "no" /\ drawPc = "locked"
    /\ renderInProgress' = TRUE
    /\ drawPc' = "marked"
    /\ AppStep("DrawImage")
    /\ UNCHANGED <<renderer, rendererNeedsReset, renderLock, lastImage, resetPc>>
    /\ UNCHANGED fnVars

\* The early returns of DrawImage and the choice between upload and render
\* (image_drawing.cpp:109-200).
DrawCheck ==
    /\ halted = "no" /\ drawPc = "marked"
    /\ \E sizeOk \in BOOLEAN, imageOk \in BOOLEAN :
         IF ~sizeOk \/ ~imageOk \/ ~renderer \/ rendererNeedsReset
         THEN drawPc' = "unmark" /\ UNCHANGED rendererNeedsReset
         ELSE IF deviceLost_
         THEN drawPc' = "unmark" /\ rendererNeedsReset' = TRUE
         ELSE /\ drawPc' = IF lastImage THEN "render" ELSE "upload"
              /\ UNCHANGED rendererNeedsReset
    /\ AppStep("DrawImage")
    /\ UNCHANGED <<renderer, renderInProgress, renderLock, lastImage, resetPc>>
    /\ UNCHANGED fnVars

\* The upload of a changed image (image_drawing.cpp:196-206).
DrawUpload ==
    /\ halted = "no" /\ drawPc = "upload"
    /\ \E e \in (IF UpdateUsesDriver(Cur, TRUE, 1, 1) THEN AppUpdateEnvs
                 ELSE {UpdateEnv("ok", "ok", TRUE, "ok", "ok", "ok")}) :
         Assign(UpdateImageFromData(Begin("UpdateImageFromData"), TRUE, 1, 1, FALSE, e))
    /\ lastImage' = TRUE
    /\ drawPc' = "render"
    /\ UNCHANGED <<renderer, rendererNeedsReset, renderInProgress, renderLock, resetPc>>
    /\ UNCHANGED fnVars

\* Mutant of SignalsReset: only the device-lost flag is looked at.
SignalsResetWhenLost(s) == s.deviceLost_

\* DrawImage's test of the renderer after Render (image_drawing.cpp:242).
SignalsReset(s) == s.deviceLost_ \/ s.swapchainOutOfDate_

\* Render and the test of the two flags after it (image_drawing.cpp:236-255).
DrawRender ==
    /\ halted = "no" /\ drawPc = "render"
    /\ \E z \in ValidSizes :
         \E e \in RenderEnvs(Cur, z[1], z[2], AppSwapEnvs) :
            LET s == Render(Begin("Render"), z[1], z[2], e)
            IN /\ s.halted # "blocked"
               /\ Assign(s)
               /\ IF SignalsReset(s)
                  THEN rendererNeedsReset' = TRUE /\ lastImage' = FALSE
                  ELSE UNCHANGED <<rendererNeedsReset, lastImage>>
    /\ drawPc' = "unmark"
    /\ UNCHANGED <<renderer, renderInProgress, renderLock, resetPc>>
    /\ UNCHANGED fnVars

\* RenderInProgressGuard's destructor (image_drawing.cpp:90).
DrawUnmark ==
    /\ halted = "no" /\ drawPc = "unmark"
    /\ renderInProgress' = FALSE
    /\ drawPc' = "release"
    /\ AppStep("DrawImage")
    /\ UNCHANGED <<renderer, rendererNeedsReset, renderLock, lastImage, resetPc>>
    /\ UNCHANGED fnVars

\* SrwSharedGuard's destructor (image_drawing.cpp:80).
DrawRelease ==
    /\ halted = "no" /\ drawPc = "release"
    /\ renderLock' = [renderLock EXCEPT !.shared = @ - 1]
    /\ drawPc' = "idle"
    /\ AppStep("DrawImage")
    /\ UNCHANGED <<renderer, rendererNeedsReset, renderInProgress, lastImage, resetPc>>
    /\ UNCHANGED fnVars

\* ---- the deferred reset of the main loop (main_win32.cpp:439-485)
\* The loop sees rendererNeedsReset set (main_win32.cpp:440).
ResetPoll ==
    /\ halted = "no" /\ resetPc = "loop" /\ rendererNeedsReset
    /\ resetPc' = "spin"
    /\ AppStep("Reset")
    /\ UNCHANGED <<renderer, rendererNeedsReset, renderInProgress, renderLock,
                   lastImage, drawPc>>
    /\ UNCHANGED fnVars

\* The wait for renderInProgress to be false (main_win32.cpp:443-445).
ResetSpin ==
    /\ halted = "no" /\ resetPc = "spin" /\ ~renderInProgress
    /\ resetPc' = "acquire"
    /\ AppStep("Reset")
    /\ UNCHANGED <<renderer, rendererNeedsReset, renderInProgress, renderLock,
                   lastImage, drawPc>>
    /\ UNCHANGED fnVars

\* AcquireSRWLockExclusive and the choice of the reset (main_win32.cpp:448-467).
ResetLock ==
    /\ halted = "no" /\ resetPc = "acquire" /\ CanLockExclusive(renderLock)
    /\ renderLock' = [renderLock EXCEPT !.exclusive = TRUE]
    /\ resetPc' = IF renderer /\ deviceLost_ THEN "shutdown"
                  ELSE IF renderer THEN "resize" ELSE "finish"
    /\ AppStep("Reset")
    /\ UNCHANGED <<renderer, rendererNeedsReset, renderInProgress, lastImage, drawPc>>
    /\ UNCHANGED fnVars

\* The full rebuild, first half: Shutdown, the destructor's Shutdown and a new
\* object (main_win32.cpp:456-458, vulkan_renderer.cpp:71).
ResetShutdown ==
    /\ halted = "no" /\ resetPc = "shutdown"
    /\ \E wait \in WaitResults(Cur) :
         Assign(Constructed(Shutdown(Shutdown(Begin("Shutdown"), wait), SUCCESS)))
    /\ resetPc' = "initialize"
    /\ UNCHANGED <<renderer, rendererNeedsReset, renderInProgress, renderLock,
                   lastImage, drawPc>>
    /\ UNCHANGED fnVars

\* The full rebuild, second half: Initialize; the object is dropped when it
\* fails (main_win32.cpp:459-466).
ResetInitialize ==
    /\ halted = "no" /\ resetPc = "initialize"
    /\ \E e \in AppInitEnvs :
         LET s == Initialize(Begin("Initialize"), TRUE, e)
         IN IF s.outcome \in {"ready", "fallback"}
            THEN Assign(s) /\ renderer' = TRUE
            ELSE Assign(Constructed(Shutdown(s, SUCCESS))) /\ renderer' = FALSE
    /\ resetPc' = "finish"
    /\ UNCHANGED <<rendererNeedsReset, renderInProgress, renderLock, lastImage, drawPc>>
    /\ UNCHANGED fnVars

\* The swapchain-only reset, first half: Resize to the client size
\* (main_win32.cpp:468-477).
ResetResize ==
    /\ halted = "no" /\ resetPc = "resize"
    /\ \E r \in ValidSizes \cup {<<0, 0>>} :
         LET z == <<AtLeastOne(r[1]), AtLeastOne(r[2])>>
         IN \E e \in (IF swapchainExtent_ # z /\ device_ # NULL
                      THEN AppSwapEnvs ELSE {OkSwap}) :
               Assign(Resize(Begin("Resize"), z[1], z[2], e))
    /\ resetPc' = "clear"
    /\ UNCHANGED <<renderer, rendererNeedsReset, renderInProgress, renderLock,
                   lastImage, drawPc>>
    /\ UNCHANGED fnVars

\* The swapchain-only reset, second half (main_win32.cpp:478).
ResetClear ==
    /\ halted = "no" /\ resetPc = "clear"
    /\ Assign(ClearErrorFlags(Begin("ClearErrorFlags")))
    /\ resetPc' = "finish"
    /\ UNCHANGED <<renderer, rendererNeedsReset, renderInProgress, renderLock,
                   lastImage, drawPc>>
    /\ UNCHANGED fnVars

\* The end of the reset (main_win32.cpp:483-484).
ResetFinish ==
    /\ halted = "no" /\ resetPc = "finish"
    /\ rendererNeedsReset' = FALSE
    /\ renderLock' = [renderLock EXCEPT !.exclusive = FALSE]
    /\ resetPc' = "loop"
    /\ AppStep("Reset")
    /\ UNCHANGED <<renderer, renderInProgress, lastImage, drawPc>>
    /\ UNCHANGED fnVars

AppNext ==
    \/ AppStart
    \/ DrawLock \/ DrawMark \/ DrawCheck \/ DrawUpload \/ DrawRender
    \/ DrawUnmark \/ DrawRelease
    \/ ResetPoll \/ ResetSpin \/ ResetLock \/ ResetShutdown \/ ResetInitialize
    \/ ResetResize \/ ResetClear \/ ResetFinish
    \/ GpuComplete /\ UNCHANGED <<appVars, fnVars>>
    \/ GpuLose /\ UNCHANGED <<appVars, fnVars>>

AppSpec == Init /\ [][AppNext]_vars

(***************************************************************************)
(* The application with the loading of image files                        *)
(* (image_io.cpp:64-490).                                                  *)
(***************************************************************************)
\* LoadImageFromFile, run by the message handlers of the main thread between
\* two paints and outside the reset: it replaces the image and uploads it at
\* once, without a look at rendererNeedsReset (image_io.cpp:477-486).  Every
\* file holds an image of the one size and format DrawUpload uploads, so the
\* sizes DrawImage remembers in its statics still match afterwards.
LoadImageFromFile ==
    /\ halted = "no" /\ resetPc = "loop" /\ drawPc = "idle"
    /\ renderer
    /\ \E e \in (IF UpdateUsesDriver(Cur, TRUE, 1, 1) THEN AppUpdateEnvs
                 ELSE {UpdateEnv("ok", "ok", TRUE, "ok", "ok", "ok")}) :
         Assign([UpdateImageFromData(Begin("UpdateImageFromData"),
                                     TRUE, 1, 1, FALSE, e)
                    EXCEPT !.lastOp = "LoadImageFromFile"])
    /\ UNCHANGED appVars
    /\ UNCHANGED fnVars

ViewNext ==
    \/ AppNext
    \/ LoadImageFromFile

ViewSpec == Init /\ [][ViewNext]_vars

(***************************************************************************)
(* pickPhysicalDevice on its own (vulkan_renderer.cpp:130-178).            *)
(***************************************************************************)
\* The most devices an enumeration reports here.
MaxDevices == 2

\* UINT32_MAX: a queue family index that is not set (vulkan_renderer.h:67-68).
UNSET == 0 - 1

\* A queue family: whether it has VK_QUEUE_GRAPHICS_BIT and whether it can
\* present to the surface.  A device is the sequence of its families.
QueueFamilies == [graphics : BOOLEAN, present : BOOLEAN]
Devices == UNION {[1..n -> QueueFamilies] : n \in 0..2}
DeviceLists == UNION {[1..n -> Devices] : n \in 0..MaxDevices}

\* The three members pickPhysicalDevice writes, as a new object has them, and
\* its return value (0 is VK_NULL_HANDLE, k the k-th enumerated device).
UnpickedDevice ==
    [ok |-> FALSE, physicalDevice_ |-> 0,
     graphicsQueueFamily_ |-> UNSET, presentQueueFamily_ |-> UNSET]

\* The loop over the queue families of one device: the last graphics family
\* and the first present family, as 0-based indices.
RECURSIVE scanFamilies(_, _, _, _)
scanFamilies(qprops, i, gfxIdx, presentIdx) ==
    IF i >= Len(qprops) THEN [gfxIdx |-> gfxIdx, presentIdx |-> presentIdx]
    ELSE scanFamilies(qprops, i + 1,
                      IF qprops[i + 1].graphics THEN i ELSE gfxIdx,
                      IF qprops[i + 1].present /\ presentIdx = UNSET
                      THEN i ELSE presentIdx)

\* The loop over the devices, from the k-th on.
RECURSIVE scanDevices(_, _, _)
scanDevices(p, devs, k) ==
    IF k > Len(devs) THEN [p EXCEPT !.ok = TRUE]
    ELSE LET f == scanFamilies(devs[k], 0, UNSET, UNSET)
         IN IF f.gfxIdx # UNSET /\ f.presentIdx # UNSET
            THEN [ok |-> TRUE, physicalDevice_ |-> k,
                  graphicsQueueFamily_ |-> f.gfxIdx,
                  presentQueueFamily_ |-> f.presentIdx]
            ELSE scanDevices(p, devs, k + 1)

pickPhysicalDevice(p, hasInstance, enumOk, devs) ==
    IF ~hasInstance THEN [p EXCEPT !.ok = FALSE]
    ELSE IF ~enumOk \/ Len(devs) = 0 THEN [p EXCEPT !.ok = FALSE]
    ELSE scanDevices(p, devs, 1)

PickInputs ==
    [fn : {"pickPhysicalDevice"}, hasInstance : BOOLEAN, enumOk : BOOLEAN,
     devs : DeviceLists]

PickInit == Constructor /\ fnIn \in PickInputs /\ fnOut = NoCall

PickCall ==
    /\ fnOut = NoCall
    /\ fnOut' = pickPhysicalDevice(UnpickedDevice, fnIn.hasInstance, fnIn.enumOk,
                                   fnIn.devs)
    /\ AppStep("pickPhysicalDevice")
    /\ UNCHANGED <<appVars, fnIn>>

PickSpec == PickInit /\ [][PickCall]_vars

(***************************************************************************)
(* The sizes of an upload on their own: the checks of UpdateImageFromData, *)
(* the format createTexture picks and the size of the staging buffer       *)
(* (vulkan_renderer.cpp:907-946, 545-547), for image sizes up to the side  *)
(* cap.  Unsigned values that need not fit the integers of the model are   *)
(* kept as <<high, low>> halves of 16 bits.                                *)
(***************************************************************************)
Radix == 256 * 256
Halves(hi, lo) == <<hi + lo \div Radix, lo % Radix>>

\* uint32_t * uint32_t, modulo 2^32, for operands up to the side cap.
Mul32(a, b) ==
    LET a1 == a \div 256
        a0 == a % 256
        b1 == b \div 256
        b0 == b % 256
        p == Halves(a1 * b1, (a1 * b0 + a0 * b1) * 256 + a0 * b0)
    IN <<p[1] % Radix, p[2]>>

\* size_t multiplication of a 32-bit value by a small factor; size_t has 64
\* bits or, in a 32-bit build, 32.
MulSize(v, k, wide) ==
    LET p == Halves(v[1] * k, v[2] * k)
    IN IF wide THEN p ELSE <<p[1] % Radix, p[2]>>

R8G8B8A8_SRGB == "VK_FORMAT_R8G8B8A8_SRGB"
R16G16B16A16_SFLOAT == "VK_FORMAT_R16G16B16A16_SFLOAT"
textureFormat(isHdr) == IF isHdr THEN R16G16B16A16_SFLOAT ELSE R8G8B8A8_SRGB

\* 4 * sizeof(uint16_t) or 4 * sizeof(uint8_t).
pixelSize(isHdr) == IF isHdr THEN 4 * 2 ELSE 4 * 1

dataSize(width, height, isHdr, wide) ==
    MulSize(Mul32(width, height), pixelSize(isHdr), wide)

\* What an upload of the given size does on a ready renderer: the check that
\* refuses it or, if none does, the format of the texture and the size of the
\* staging buffer.
UploadSizes(s, width, height, isHdr, wide) ==
    LET why == UpdateGuards(s, TRUE, width, height)
    IN IF why # "-"
       THEN [accepted |-> FALSE, why |-> why, format |-> "-", staging |-> <<0, 0>>]
       ELSE [accepted |-> TRUE, why |-> "-", format |-> textureFormat(isHdr),
             staging |-> dataSize(width, height, isHdr, wide)]

\* Image sides, and the pairs of them whose product the model can hold.
UploadDims == {1, 3, 4096, 8000, 8192, 8193, 10000, 16384, 32768, 65536, 65537}
UploadInputs ==
    {x \in [fn : {"UploadSizes"}, width : UploadDims, height : UploadDims,
            isHdr : BOOLEAN, wide : BOOLEAN] :
        \/ x.width <= 16384 \/ x.height <= 16384
        \/ (x.width <= 32768 /\ x.height <= 32768)
        \/ x.width > MaxSide \/ x.height > MaxSide}

UploadInit == Constructor /\ fnIn \in UploadInputs /\ fnOut = NoCall

UploadCall ==
    /\ fnOut = NoCall
    /\ fnOut' = UploadSizes(Cur, fnIn.width, fnIn.height, fnIn.isHdr, fnIn.wide)
    /\ AppStep("UploadSizes")
    /\ UNCHANGED <<appVars, fnIn>>

UploadSpec == UploadInit /\ [][UploadCall]_vars

(***************************************************************************)
(* The destination rectangle of the blit in Render on its own              *)
(* (vulkan_renderer.cpp:1125-1207).  The corners are first computed in     *)
(* single-precision floating point from the extent, the texture size, the  *)
(* zoom and the offsets; that arithmetic is not reproduced here: its       *)
(* result is either replaced by the one-pixel rectangle at the centre (a   *)
(* corner is not finite or outside the int32 range) or converted to four   *)
(* int32 values, and every int32 value is taken to be possible, which      *)
(* covers the conversion of 2^31, a value the range test lets through.     *)
(***************************************************************************)
kMaxInt32 == 2147483647
kMinInt32 == 0 - kMaxInt32 - 1

Min(a, b) == IF a < b THEN a ELSE b
Max(a, b) == IF a > b THEN a ELSE b

\* blitAxis without the repair of an empty interval.
blitAxisClampOnly(d0, d1, limit) == <<Max(0, Min(d0, limit)), Max(0, Min(d1, limit))>>

\* Clamp, then make the interval non-empty: one axis of the rectangle.
blitAxis(d0, d1, limit) ==
    LET c0 == Max(0, Min(d0, limit))
        c1 == Max(0, Min(d1, limit))
    IN IF c1 <= c0
       THEN IF c0 + 1 > limit THEN <<Max(0, limit - 1), limit>>
            ELSE <<c0, c0 + 1>>
       ELSE <<c0, c1>>

\* The corners handed to vkCmdBlitImage: <<dstX0, dstX1>> and <<dstY0, dstY1>>.
blitDstOffsets(in) ==
    LET w == in.extent[1]
        h == in.extent[2]
    IN IF in.inRange
       THEN [x |-> blitAxis(in.dst[1], in.dst[3], w),
             y |-> blitAxis(in.dst[2], in.dst[4], h)]
       ELSE [x |-> blitAxis(w \div 2, w \div 2 + 1, w),
             y |-> blitAxis(h \div 2, h \div 2 + 1, h)]

\* Extents of a swapchain, and values the four corners convert to: the ends
\* of the int32 range, values around zero and around the extents, and an
\* offset of 1e8.
BlitDims == {1, 800, MaxSide}
BlitCorners == {kMinInt32, 0 - 1, 0, 1, 800, 801, 100000000, kMaxInt32}
BlitInputs ==
    [fn : {"blitDstOffsets"}, extent : BlitDims \X BlitDims, inRange : {TRUE},
     dst : BlitCorners \X BlitCorners \X BlitCorners \X BlitCorners]
    \cup [fn : {"blitDstOffsets"}, extent : BlitDims \X BlitDims, inRange : {FALSE},
          dst : {<<0, 0, 0, 0>>}]

BlitInit == Constructor /\ fnIn \in BlitInputs /\ fnOut = NoCall

BlitCall ==
    /\ fnOut = NoCall
    /\ fnOut' = blitDstOffsets(fnIn)
    /\ AppStep("blitDstOffsets")
    /\ UNCHANGED <<appVars, fnIn>>

BlitSpec == BlitInit /\ [][BlitCall]_vars

(***************************************************************************)
(* The start-up call on its own: one InitializeWithProgress on a fresh     *)
(* renderer, in either of its two definitions, with and without a progress *)
(* callback, for every answer of the driver (main_win32.cpp:368-369).      *)
(***************************************************************************)
StartInputs ==
    [fn : {"InitializeWithProgress"}, inRenderer : {TRUE}, hwndOk : BOOLEAN,
     cb : BOOLEAN, e : InitEnvs]
    \cup [fn : {"InitializeWithProgress"}, inRenderer : {FALSE}, hwndOk : {TRUE},
          cb : BOOLEAN, e : InitEnvs]

StartInit == Constructor /\ fnIn \in StartInputs /\ fnOut = NoCall

StartCall ==
    /\ fnOut = NoCall
    /\ LET s == IF fnIn.inRenderer
                THEN InitializeWithProgressOfRenderer(
                         Begin("InitializeWithProgress"), fnIn.hwndOk, fnIn.cb,
                         fnIn.e)
                ELSE InitializeWithProgress(Begin("InitializeWithProgress"),
                                            fnIn.cb, fnIn.e)
       IN /\ Assign(s)
          /\ fnOut' = [fn |-> "InitializeWithProgress", ok |-> s.outcome = "ready"]
    /\ UNCHANGED <<appVars, fnIn>>

StartSpec == StartInit /\ [][StartCall]_vars

(***************************************************************************)
(* The layouts of the swapchain images on their own: the barrier before    *)
(* the clear with imageUsed, the function-local static of Render that      *)
(* every renderer object of the thread shares (vulkan_renderer.cpp:        *)
(* 1088-1112), over frames that are submitted or dropped and over          *)
(* swapchains that come and go (recreateSwapchain, Shutdown and a new      *)
(* Initialize, a new renderer object).  fnOut holds imageUsed, the layout  *)
(* each image of the current swapchain is really in, and the old layout    *)
(* the last barrier named next to the layout the image then had.           *)
(***************************************************************************)
\* std::vector<bool>::resize(n, false).
ResizedFlags(used, n) == [i \in 1..n |-> i <= Len(used) /\ used[i]]

\* vulkan_renderer.cpp:1090-1096 on a swapchain of n images, for the acquired
\* image img (1-based): the static after it, and the old layout of the barrier.
preClearBarrier(used, n, img) ==
    LET u == IF Len(used) # n THEN ResizedFlags(used, n) ELSE used
    IN [imageUsed |-> [u EXCEPT ![img] = TRUE],
        initialLayout |-> IF u[img] THEN PRESENT_SRC ELSE UNDEFINED]

\* The images of a new swapchain are in no layout yet.
NewImages(n) == [i \in 1..n |-> UNDEFINED]

LayoutInit ==
    /\ Constructor
    /\ \E n \in ImageCounts :
         /\ fnIn = [fn |-> "createSwapchain", count |-> n]
         /\ fnOut = [fn |-> "createSwapchain", imageUsed |-> <<>>,
                     imageLayout |-> NewImages(n), oldLayout |-> "-", was |-> "-"]

\* One Render that gets as far as recording: the barrier names its old
\* layout; the frame's present transition takes effect when the frame is
\* submitted, and not when Render returns before that
\* (vulkan_renderer.cpp:1236-1263).
LayoutFrame ==
    /\ \E img \in 1..Len(fnOut.imageLayout), submitted \in BOOLEAN :
         LET b == preClearBarrier(fnOut.imageUsed, Len(fnOut.imageLayout), img)
         IN /\ fnIn' = [fn |-> "Render", img |-> img, submitted |-> submitted]
            /\ fnOut' = [fn |-> "Render", imageUsed |-> b.imageUsed,
                         imageLayout |-> IF submitted
                                         THEN [fnOut.imageLayout EXCEPT ![img] = PRESENT_SRC]
                                         ELSE fnOut.imageLayout,
                         oldLayout |-> b.initialLayout,
                         was |-> fnOut.imageLayout[img]]
    /\ AppStep("Render")
    /\ UNCHANGED appVars

\* The swapchain is replaced by one of n new images (vulkan_renderer.cpp:
\* 465-470, 536-540); the static is not touched.
LayoutRecreate ==
    /\ \E n \in ImageCounts :
         /\ fnIn' = [fn |-> "createSwapchain", count |-> n]
         /\ fnOut' = [fn |-> "createSwapchain", imageUsed |-> fnOut.imageUsed,
                      imageLayout |-> NewImages(n), oldLayout |-> "-", was |-> "-"]
    /\ AppStep("createSwapchain")
    /\ UNCHANGED appVars

LayoutSpec == LayoutInit /\ [][LayoutFrame \/ LayoutRecreate]_vars

(***************************************************************************)
(* Sparse textures on their own (vulkan_renderer.cpp:1289-1710): the       *)
(* tiled upload of an initialized renderer, with destroyTexture's tile     *)
(* loop.  fnOut holds the texture members, the tile table imageTiles_ and  *)
(* the driver calls of the last operation; bound is the driver's side of   *)
(* a tile: its memory is bound to the image.                               *)
(***************************************************************************)
\* minSparseSize (vulkan_renderer.cpp:1429) and the limits on tiles.
MinSparseSize == 4096
MaxTiles == 65536
MaxTileBytes == 268435456

\* The image granularity the driver reports here, and the image sides used.
Granularity == 4096
SparseSides == {MinSparseSize, MinSparseSize + 1}

\* Driver answers inside InitializeSparseImage and LoadImageTile.
SparseHows == {"ok", "unsupported", "image", "imageLost", "noReqs"}
TileHows == {"ok", "memtype", "alloc", "allocLost", "staging", "map",
             "bind", "bindLost", "noCmd"}
TileEnv(sparse, tex, tile) == [sparse |-> sparse, tex |-> tex, tile |-> tile]
TileEnvs ==
    {TileEnv(x, "ok", "ok") : x \in SparseHows}
    \cup {TileEnv("unsupported", "image", "ok")}
    \cup {TileEnv("ok", "ok", x) : x \in TileHows}

\* (extent + tileSize_ - 1) / tileSize_.  With the sides and the granularity
\* used here no sum or product of the tile arithmetic reaches 2^31, so the
\* uint32_t operations do not wrap.
TilesAcross(extent, tileSize) == (extent + tileSize - 1) \div tileSize

\* The tile table InitializeSparseImage builds (vulkan_renderer.cpp:1509-1526),
\* row by row.
NewTiles(width, height, tileSize) ==
    LET tilesX == TilesAcross(width, tileSize)
        tilesY == TilesAcross(height, tileSize)
    IN [k \in 1..(tilesX * tilesY) |->
          LET x == ((k - 1) % tilesX) * tileSize
              y == ((k - 1) \div tilesX) * tileSize
          IN [x |-> x, y |-> y,
              width |-> Min(tileSize, width - x),
              height |-> Min(tileSize, height - y),
              loaded |-> FALSE, memory |-> NULL, bound |-> FALSE]]

\* An initialized renderer without a texture.
NoTiles ==
    [fn |-> "Initialize", device_ |-> LIVE,
     textureImage_ |-> NULL, textureIsSparse_ |-> FALSE,
     textureWidth_ |-> 0, textureHeight_ |-> 0, textureIsHdr_ |-> FALSE,
     tileSize_ |-> 256, imageTiles_ |-> <<>>, deviceLost_ |-> FALSE,
     calls |-> <<>>]

\* vkFreeMemory for the memory of every tile that has some
\* (vulkan_renderer.cpp:596-606).
RECURSIVE freeTiles(_, _)
freeTiles(t, k) ==
    IF k > Len(t.imageTiles_) THEN t
    ELSE freeTiles(IF t.imageTiles_[k].memory # NULL
                   THEN Log(t, "vkFreeMemory", <<"tile", k>>)
                   ELSE t, k + 1)

\* destroyTexture with the tile loop (vulkan_renderer.cpp:593-621).
destroyTextureOfTiles(t) ==
    LET t1 == IF t.textureIsSparse_ /\ t.device_ # NULL THEN freeTiles(t, 1) ELSE t
        t2 == IF t1.textureImage_ # NULL
              THEN [Log(t1, "vkDestroyImage", t1.textureImage_)
                       EXCEPT !.textureImage_ = NULL]
              ELSE t1
    IN [t2 EXCEPT !.textureWidth_ = 0, !.textureHeight_ = 0,
                  !.textureIsSparse_ = FALSE, !.imageTiles_ = <<>>]

\* InitializeSparseImage (vulkan_renderer.cpp:1422-1538).
InitializeSparseImage(t, width, height, isHdr, how) ==
    IF width = 0 \/ height = 0 \/ t.device_ = NULL
    THEN [t |-> t, ok |-> FALSE]
    ELSE IF width < MinSparseSize \/ height < MinSparseSize
    THEN [t |-> t, ok |-> FALSE]
    ELSE IF how = "unsupported"
    THEN [t |-> [t EXCEPT !.textureIsSparse_ = FALSE], ok |-> FALSE]
    ELSE
      LET t0 == destroyTextureOfTiles(t)
      IN IF how \in {"image", "imageLost"}
         THEN [t |-> [Log(t0, "vkCreateImage",
                          IF how = "image" THEN OOM ELSE DEVICE_LOST)
                         EXCEPT !.deviceLost_ = @ \/ how = "imageLost"],
               ok |-> FALSE]
         ELSE
      LET t1 == [Log(t0, "vkCreateImage", SUCCESS) EXCEPT !.textureImage_ = LIVE]
      IN IF how = "noReqs"
         THEN [t |-> [Log(t1, "vkDestroyImage", LIVE)
                         EXCEPT !.textureImage_ = NULL, !.textureIsSparse_ = FALSE],
               ok |-> FALSE]
         ELSE
      LET t2 == [t1 EXCEPT !.tileSize_ = Granularity]
          totalTiles == TilesAcross(width, t2.tileSize_)
                           * TilesAcross(height, t2.tileSize_)
      IN IF totalTiles > MaxTiles
         THEN [t |-> [Log(t2, "vkDestroyImage", LIVE)
                         EXCEPT !.textureImage_ = NULL, !.textureIsSparse_ = FALSE],
               ok |-> FALSE]
         ELSE [t |-> [t2 EXCEPT !.imageTiles_ = NewTiles(width, height, t2.tileSize_),
                                !.textureWidth_ = width, !.textureHeight_ = height,
                                !.textureIsHdr_ = isHdr, !.textureIsSparse_ = TRUE],
               ok |-> TRUE]

\* Mutant of alreadyLoaded: the flag is not looked at.
alreadyLoadedNever(tile) == FALSE

\* LoadImageTile's test of the tile (vulkan_renderer.cpp:1561).
alreadyLoaded(tile) == tile.loaded

\* The release of a tile's staging buffer and memory with the tile's own
\* memory after a failed step (vulkan_renderer.cpp:1605-1611, 1642-1648).
dropTile(t, k) ==
    [Log(Log(Log(t, "vkDestroyBuffer", <<"staging", k>>),
             "vkFreeMemory", <<"staging", k>>),
         "vkFreeMemory", <<"tile", k>>)
       EXCEPT !.imageTiles_[k].memory = NULL, !.imageTiles_[k].bound = FALSE]

\* LoadImageTile (vulkan_renderer.cpp:1540-1710); tileX and tileY count tiles.
LoadImageTile(t, tileX, tileY, hasData, isHdr, how) ==
    IF ~hasData \/ ~t.textureIsSparse_ \/ t.textureImage_ = NULL THEN t
    ELSE
      LET tilesX == TilesAcross(t.textureWidth_, t.tileSize_)
          tilesY == TilesAcross(t.textureHeight_, t.tileSize_)
          k == tileY * tilesX + tileX + 1
      IN IF tileX >= tilesX \/ tileY >= tilesY \/ k > Len(t.imageTiles_) THEN t
         ELSE IF alreadyLoaded(t.imageTiles_[k]) THEN t
         ELSE
      LET tile == t.imageTiles_[k]
          tileDataSize == tile.width * tile.height * (IF isHdr THEN 8 ELSE 4)
      IN IF tileDataSize = 0 \/ tileDataSize > MaxTileBytes THEN t
         ELSE IF how = "memtype" THEN t
         ELSE IF how \in {"alloc", "allocLost"}
         THEN [Log(t, "vkAllocateMemory",
                   IF how = "alloc" THEN OOM ELSE DEVICE_LOST)
                  EXCEPT !.deviceLost_ = @ \/ how = "allocLost"]
         ELSE
      LET t1 == [Log(t, "vkAllocateMemory", SUCCESS)
                    EXCEPT !.imageTiles_[k].memory = LIVE,
                           !.imageTiles_[k].bound = FALSE]
      IN IF how = "staging"
         THEN [Log(Log(t1, "vkCreateBuffer", OOM), "vkFreeMemory", <<"tile", k>>)
                  EXCEPT !.imageTiles_[k].memory = NULL]
         ELSE
      LET t2 == Log(t1, "vkCreateBuffer", SUCCESS)
      IN IF how = "map" THEN dropTile(Log(t2, "vkMapMemory", OOM), k)
         ELSE
      LET t3 == Log(t2, "vkMapMemory", SUCCESS)
      IN IF how \in {"bind", "bindLost"}
         THEN [dropTile(Log(t3, "vkQueueBindSparse",
                            IF how = "bind" THEN OOM ELSE DEVICE_LOST), k)
                  EXCEPT !.deviceLost_ = @ \/ how = "bindLost"]
         ELSE
      LET t4 == [Log(t3, "vkQueueBindSparse", SUCCESS)
                    EXCEPT !.imageTiles_[k].bound = TRUE]
          t5 == IF how = "noCmd" THEN Log(t4, "vkAllocateCommandBuffers", OOM)
                ELSE Log(t4, "vkCmdCopyBufferToImage", <<"tile", k>>)
          t6 == Log(Log(t5, "vkDestroyBuffer", <<"staging", k>>),
                    "vkFreeMemory", <<"staging", k>>)
      IN [t6 EXCEPT !.imageTiles_[k].loaded = TRUE]

\* createTexture as UpdateImageTiled falls back to it: the old texture goes,
\* a regular image comes (vulkan_renderer.cpp:542-591).
createRegularTexture(t, width, height, isHdr, how) ==
    LET t0 == [destroyTextureOfTiles(t) EXCEPT !.textureIsHdr_ = isHdr]
    IN IF how = "image"
       THEN [t |-> Log(t0, "vkCreateImage", OOM), ok |-> FALSE]
       ELSE [t |-> [Log(t0, "vkCreateImage", SUCCESS)
                       EXCEPT !.textureImage_ = LIVE, !.textureWidth_ = width,
                              !.textureHeight_ = height, !.textureIsSparse_ = FALSE],
             ok |-> TRUE]

\* UpdateImageTiled (vulkan_renderer.cpp:1289-1420); tileX, tileY, tileWidth
\* and tileHeight are in pixels.
UpdateImageTiled(t, hasPixels, fullWidth, fullHeight, tileX, tileY, tileWidth, tileHeight, isHdr, e) ==
    IF ~hasPixels \/ fullWidth = 0 \/ fullHeight = 0
         \/ tileWidth = 0 \/ tileHeight = 0 \/ t.device_ = NULL THEN t
    ELSE IF tileX >= fullWidth \/ tileY >= fullHeight
              \/ tileX + tileWidth > fullWidth \/ tileY + tileHeight > fullHeight
    THEN t
    ELSE IF tileWidth * tileHeight > 16777216 THEN t
    ELSE
      LET fresh == t.textureImage_ = NULL \/ t.textureWidth_ # fullWidth
                      \/ t.textureHeight_ # fullHeight \/ t.textureIsHdr_ # isHdr
          i == IF fresh /\ fullWidth >= 4096 /\ fullHeight >= 4096
               THEN InitializeSparseImage(t, fullWidth, fullHeight, isHdr, e.sparse)
               ELSE [t |-> t, ok |-> FALSE]
          c == IF fresh /\ ~i.ok
               THEN createRegularTexture(i.t, fullWidth, fullHeight, isHdr, e.tex)
               ELSE [t |-> i.t, ok |-> TRUE]
      IN IF ~c.ok THEN c.t
         ELSE IF c.t.textureIsSparse_
         THEN LoadImageTile(c.t, tileX \div c.t.tileSize_, tileY \div c.t.tileSize_,
                            TRUE, isHdr, e.tile)
         ELSE Log(c.t, "vkCmdCopyBufferToImage", <<"region", tileX, tileY>>)

\* The pixel origins of the regions uploaded here.
TileOrigins == {0, MinSparseSize}

TileInit ==
    /\ Constructor
    /\ fnIn = NoCall
    /\ fnOut = NoTiles

\* One UpdateImageTiled of a one-pixel region of a square image.
TileUpdate ==
    /\ \E w \in SparseSides, x \in TileOrigins, y \in TileOrigins,
          isHdr \in BOOLEAN, e \in TileEnvs :
         LET h == w IN
         /\ fnIn' = [fn |-> "UpdateImageTiled", fresh |->
                        (fnOut.textureImage_ = NULL \/ fnOut.textureWidth_ # w
                           \/ fnOut.textureHeight_ # h \/ fnOut.textureIsHdr_ # isHdr),
                     tile |-> (y \div Granularity) * TilesAcross(w, Granularity)
                                 + (x \div Granularity) + 1]
         /\ fnOut' = UpdateImageTiled([fnOut EXCEPT !.fn = "UpdateImageTiled",
                                                    !.calls = <<>>],
                                      TRUE, w, h, x, y, 1, 1, isHdr, e)
    /\ AppStep("UpdateImageTiled")
    /\ UNCHANGED appVars

\* The texture is given up: destroyTexture as Shutdown calls it
\* (vulkan_renderer.cpp:593-621, 712).
TileDestroy ==
    /\ fnIn' = [fn |-> "destroyTexture"]
    /\ fnOut' = destroyTextureOfTiles([fnOut EXCEPT !.fn = "destroyTexture",
                                                    !.calls = <<>>])
    /\ AppStep("destroyTexture")
    /\ UNCHANGED appVars

TileSpec == TileInit /\ [][TileUpdate \/ TileDestroy]_vars

(***************************************************************************)
(* Properties.                                                             *)
(***************************************************************************)
\* The call log has an entry of function fn / an entry <<fn, x>>.
HasCall(log, fn) == \E k \in 1..Len(log) : log[k][1] = fn
HasResult(log, fn, x) == \E k \in 1..Len(log) : log[k] = <<fn, x>>
\* The position of the first entry of fn in the log, 0 when there is none.
FirstCall(log, fn) ==
    IF HasCall(log, fn) THEN CHOOSE k \in 1..Len(log) :
                                 log[k][1] = fn /\ \A j \in 1..(k - 1) : log[j][1] # fn
    ELSE 0

\* C1: once the device-lost flag is set, every later Render returns without
\* issuing a GPU command, and the flag stays set across every public operation
\* other than Shutdown and Initialize (Render, Resize, UpdateImageFromData,
\* ClearErrorFlags).
C1_LostFlagIsSticky ==
    [][(deviceLost_ /\ lastOp' \in {"Render", "Resize", "UpdateImageFromData",
                                    "ClearErrorFlags"})
         => (deviceLost_' /\ (lastOp' = "Render" => calls' = <<>>))]_vars

\* C3, as claimed: currentFrame_ changes only at the end of a Render whose
\* submit and present both succeeded.
C3_ChangesOnlyInRender ==
    [][currentFrame_' # currentFrame_
         => (lastOp' = "Render" /\ outcome' = "presented")]_vars

\* C3, amended: a Render whose submit and present both succeeded moves
\* currentFrame_ to (currentFrame_ + 1) mod MAX_FRAMES_IN_FLIGHT; every other
\* Render leaves it unchanged; outside Render only an Initialize that creates
\* the synchronization ring changes it, to 0.
C3_FrameAdvance ==
    [][/\ (lastOp' = "Render" /\ outcome' = "presented")
            => currentFrame_' = (currentFrame_ + 1) % MAX_FRAMES_IN_FLIGHT
       /\ (lastOp' = "Render" /\ outcome' # "presented")
            => currentFrame_' = currentFrame_
       /\ (lastOp' # "Render" /\ currentFrame_' # currentFrame_)
            => (lastOp' = "Initialize" /\ currentFrame_' = 0
                /\ HasCall(calls', "vkCreateFence"))]_vars

\* A Render has just advanced the frame counter from slot 1 back to slot 0.
C3_Witness ==
    /\ lastOp = "Render" /\ outcome = "presented"
    /\ HasResult(calls, "vkResetFences", SlotName(1))
    /\ currentFrame_ = 0

InDrawImage == drawPc # "idle"
\* The main loop is between AcquireSRWLockExclusive and ReleaseSRWLockExclusive.
InReset == resetPc \in {"shutdown", "initialize", "resize", "clear", "finish"}

\* C5: the reset never holds the lock exclusively while a DrawImage is between
\* its start and its end; the renderer calls of the reset (Shutdown,
\* Initialize, Resize, ClearErrorFlags) are made only while no DrawImage is
\* running, and the renderer calls of DrawImage (UpdateImageFromData, Render)
\* and its start only while no reset holds the lock.
C5_ResetExcludesDraw ==
    /\ [](~(InDrawImage /\ InReset))
    /\ [][/\ lastOp' \in {"Shutdown", "Initialize", "Resize", "ClearErrorFlags"}
              => (~InDrawImage /\ renderLock.exclusive /\ renderLock.shared = 0)
          /\ lastOp' \in {"UpdateImageFromData", "Render"}
              => (~InReset /\ ~renderLock.exclusive /\ renderInProgress)
          /\ (~InDrawImage /\ InDrawImage') => ~InReset]_vars

\* The reset has shut the lost renderer down under the exclusive lock, after a
\* DrawImage whose Render met the lost device has ended.
C5_Witness ==
    /\ resetPc = "initialize" /\ lastOp = "Shutdown"
    /\ renderLock.exclusive /\ rendererNeedsReset /\ drawPc = "idle"

\* The results that report an error.
ErrorResults == {DEVICE_LOST, OUT_OF_DATE, SURFACE_LOST, OOM}
\* No call of the log reported an error.
NoFailure(log) == \A k \in 1..Len(log) : log[k][2] \notin ErrorResults

\* C6: with the surface-out-of-date flag set, a Resize to a non-zero size that
\* the driver does not fail destroys the swapchain and creates a new one and
\* leaves the device alone, and ClearErrorFlags then leaves the flag clear.
C6_StaleRecovery ==
    [][/\ (swapchainOutOfDate_ /\ lastOp' = "Resize" /\ outcome' # "zero size"
           /\ halted' = "no" /\ NoFailure(calls'))
            => /\ HasCall(calls', "vkDestroySwapchainKHR")
               /\ HasResult(calls', "vkCreateSwapchainKHR", SUCCESS)
               /\ ~HasCall(calls', "vkDestroyDevice")
               /\ ~HasCall(calls', "vkCreateDevice")
       /\ (swapchainOutOfDate_ /\ lastOp' = "ClearErrorFlags")
            => ~swapchainOutOfDate_']_vars

\* The calls of Render that record, submit or present a frame.
FrameWork ==
    {"vkBeginCommandBuffer", "vkCmdClearColorImage", "vkCmdBlitImage",
     "RenderInstructionalUI", "vkEndCommandBuffer", "vkResetFences",
     "vkQueueSubmit", "vkQueuePresentKHR"}

\* The calls of a Render after its acquire.
AfterAcquire(log) == SubSeq(log, FirstCall(log, "vkAcquireNextImageKHR") + 1, Len(log))

\* After an out-of-date acquire whose recreation the driver did not fail: a
\* Resize and a Render, of any valid sizes, with the driver succeeding, run the
\* whole frame in order and advance the frame counter.
C7_FollowUp ==
    \A z1 \in ValidSizes, z2 \in ValidSizes :
       LET s1 == Resize(Begin("Resize"), z1[1], z1[2], OkSwap)
           s2 == Render([s1 EXCEPT !.lastOp = "Render", !.calls = <<>>],
                        z2[1], z2[2], QuietFrame)
           at(fn) == FirstCall(s2.calls, fn)
       IN /\ s2.halted = "no" /\ s2.outcome = "presented"
          /\ s2.currentFrame_ = 1 - currentFrame_
          /\ 0 < at("vkWaitForFences")
          /\ at("vkWaitForFences") < at("vkAcquireNextImageKHR")
          /\ at("vkAcquireNextImageKHR") < at("vkCmdClearColorImage")
          /\ at("vkCmdClearColorImage") < at("vkQueueSubmit")
          /\ at("vkQueueSubmit") < at("vkQueuePresentKHR")

\* C7: a Render whose acquire returns OUT_OF_DATE recreates the swapchain and
\* returns: nothing is recorded, the fence is not reset, nothing is submitted
\* or presented and the frame counter stays; a following Resize and Render
\* then run the complete frame and advance the counter.
C7_AcquireOutOfDate ==
    /\ []((lastOp = "Render" /\ outcome = "acquire out of date"
           /\ NoFailure(AfterAcquire(calls))) => C7_FollowUp)
    /\ [][(lastOp' = "Render" /\ outcome' = "acquire out of date")
         => /\ \E j \in 1..Len(calls'), k \in 1..Len(calls') :
                  /\ FirstCall(calls', "vkAcquireNextImageKHR") < j /\ j < k
                  /\ calls'[j][1] = "vkDestroySwapchainKHR"
                  /\ calls'[k][1] = "vkGetPhysicalDeviceSurfaceFormatsKHR"
            /\ \A k \in 1..Len(calls') : calls'[k][1] \notin FrameWork
            /\ currentFrame_' = currentFrame_]_vars

\* C8: in Render, after an error result of the fence wait, the acquire, the
\* submit or the present, nothing more is recorded, submitted or presented,
\* and the error is on record: a flag is set or the swapchain was recreated.
C8_ErrorsEndFrame ==
    lastOp = "Render" =>
      \A k \in 1..Len(calls) :
         (/\ calls[k][1] \in {"vkWaitForFences", "vkAcquireNextImageKHR",
                              "vkQueueSubmit", "vkQueuePresentKHR"}
          /\ calls[k][2] \in ErrorResults)
         => /\ \A j \in (k + 1)..Len(calls) : calls[j][1] \notin FrameWork
            /\ \/ deviceLost_ \/ swapchainOutOfDate_
               \/ \E j \in (k + 1)..Len(calls) : calls[j][1] = "vkDestroySwapchainKHR"

\* C9: in Render a present result of OUT_OF_DATE or SUBOPTIMAL sets the
\* surface-out-of-date flag and leaves the device-lost flag as it was; a
\* DEVICE_LOST from submit or present sets the device-lost flag; Render
\* returns normally in each case; a fully successful frame changes neither.
C9_FlagsOfRender ==
    [][lastOp' = "Render"
         => /\ (\/ HasResult(calls', "vkQueuePresentKHR", OUT_OF_DATE)
                \/ HasResult(calls', "vkQueuePresentKHR", SUBOPTIMAL))
                 => (swapchainOutOfDate_' /\ deviceLost_' = deviceLost_
                     /\ halted' = "no")
            /\ (\/ HasResult(calls', "vkQueueSubmit", DEVICE_LOST)
                \/ HasResult(calls', "vkQueuePresentKHR", DEVICE_LOST))
                 => (deviceLost_' /\ swapchainOutOfDate_' = swapchainOutOfDate_
                     /\ halted' = "no")
            /\ outcome' = "presented"
                 => (deviceLost_' = deviceLost_
                     /\ swapchainOutOfDate_' = swapchainOutOfDate_)]_vars

\* A suboptimal present has set the surface flag and not the device flag.
C9_Witness ==
    /\ lastOp = "Render" /\ HasResult(calls, "vkQueuePresentKHR", SUBOPTIMAL)
    /\ swapchainOutOfDate_ /\ ~deviceLost_

\* The number of GPU objects the renderer holds a handle of.
Held(hs) == Cardinality({i \in 1..Len(hs) : hs[i] # NULL})
HeldObjects ==
    Cardinality({h \in {<<"instance", instance_>>, <<"surface", surface_>>,
                        <<"device", device_>>, <<"pool", commandPool_>>,
                        <<"swapchain", swapchain_>>, <<"image", textureImage_>>,
                        <<"memory", textureMemory_>>} : h[2] # NULL})
    + Held(swapchainImageViews_) + Held(imageAvailableSemaphores_)
    + Held(renderFinishedSemaphores_) + Held(inFlightFences_)

\* C10: a Shutdown destroys only objects that exist, each held handle at most
\* once; a Shutdown that directly follows a Shutdown makes no Vulkan call and
\* leaves every field of the renderer as the first one left it.
C10_ShutdownTwice ==
    [][lastOp' = "Shutdown"
         => /\ \A k \in 1..Len(calls') :
                  calls'[k][1] \in DestroyFns => calls'[k][2] \in {LIVE, ORPHAN}
            /\ Len(Destroys(calls')) <= HeldObjects
            /\ lastOp = "Shutdown"
                 => /\ calls' = <<>>
                    /\ UNCHANGED <<instance_, surface_, physicalDevice_, device_,
                          commandPool_, swapchain_, swapchainExtent_,
                          swapchainImages_, swapchainImageViews_, commandBuffers_,
                          imageAvailableSemaphores_, renderFinishedSemaphores_,
                          inFlightFences_, currentFrame_, textureImage_,
                          textureMemory_, textureLayout_, textureDesc_,
                          deviceLost_, swapchainOutOfDate_, vulkanAvailable_,
                          fallbackHwnd_, fallbackExtent_, fallbackBuffer_,
                          gpuLost, fenceSignaled, outstanding, realLayout,
                          halted>>]_vars

\* A Shutdown has run on a renderer that an earlier Shutdown had emptied
\* after a successful Initialize.
C10_Witness ==
    /\ lastOp = "Shutdown" /\ outcome = "no device" /\ calls = <<>>
    /\ physicalDevice_ = DEAD /\ instance_ = NULL /\ device_ = NULL
    /\ commandPool_ = NULL /\ swapchain_ = NULL

\* The calls of Shutdown that take the logical device.
DeviceCalls ==
    {"vkDeviceWaitIdle", "vkDestroyImage", "vkFreeMemory", "vkDestroyImageView",
     "vkDestroySwapchainKHR", "vkDestroySemaphore", "vkDestroyFence",
     "vkDestroyCommandPool", "vkDestroyDevice"}

\* C11: a Shutdown called with the device-lost flag set makes no call that
\* takes the logical device; a Shutdown called with the flag clear on a
\* renderer that has a device calls vkDeviceWaitIdle before it destroys
\* anything.
C11_ShutdownWhenLost ==
    [][lastOp' = "Shutdown"
         => /\ deviceLost_
                => \A k \in 1..Len(calls') : calls'[k][1] \notin DeviceCalls
            /\ (~deviceLost_ /\ device_ # NULL)
                => /\ calls'[1][1] = "vkDeviceWaitIdle"
                   /\ \A k \in 2..Len(calls') : calls'[k][1] \in DestroyFns]_vars

\* Every handle of the renderer is null and every handle vector is empty.
AllHandlesNull ==
    /\ instance_ = NULL /\ surface_ = NULL /\ physicalDevice_ = NULL
    /\ device_ = NULL /\ commandPool_ = NULL /\ swapchain_ = NULL
    /\ swapchainImageViews_ = <<>>
    /\ imageAvailableSemaphores_ = <<>> /\ renderFinishedSemaphores_ = <<>>
    /\ inFlightFences_ = <<>>

\* C12: an Initialize or InitializeWithProgress in which a step fails returns
\* false and leaves every handle null and every handle vector empty.
C12_FailedInitializeLeavesNothing ==
    [][(/\ lastOp' \in {"Initialize", "InitializeWithProgress"}
        /\ calls' # <<>> /\ outcome' # "ready")
         => (outcome' = "failed" /\ AllHandlesNull')]_vars

\* The log of an Initialize that found no usable GPU: instance creation
\* failed, no enumerated device qualified, or device creation failed.
NoCompatibleGpu(log) ==
    \/ HasResult(log, "vkCreateInstance", OOM)
    \/ HasResult(log, "vkCreateDevice", OOM)
    \/ (HasResult(log, "vkEnumeratePhysicalDevices", SUCCESS)
        /\ ~HasCall(log, "vkCreateDevice"))

\* C13: after an Initialize that found no usable GPU both IsDeviceLost() and
\* vulkanAvailable_ are false, and a Render of any valid size makes no Vulkan
\* call and leaves a fallback buffer of width * height * 4 bytes.
C13_NoGpuFallback ==
    (lastOp = "Initialize" /\ halted = "no" /\ NoCompatibleGpu(calls))
      => /\ ~deviceLost_ /\ ~vulkanAvailable_
         /\ \A z \in ValidSizes :
              LET s == Render(Begin("Render"), z[1], z[2], QuietFrame)
              IN s.calls = <<>> /\ s.fallbackBuffer_ = z[1] * z[2] * 4

\* The device has a graphics queue family and a family that can present.
Qualifies(d) ==
    /\ \E i \in 1..Len(d) : d[i].graphics
    /\ \E i \in 1..Len(d) : d[i].present

\* C14: pickPhysicalDevice on a new renderer selects the first enumerated
\* device that has both a graphics and a present queue family, with a graphics
\* family and a present family of that device as the two indices; when no
\* enumerated device has both, it selects none, leaves both indices unset and
\* does not return true.
C14_FirstQualifyingDevice ==
    (fnOut # NoCall /\ fnIn.hasInstance /\ fnIn.enumOk)
      => LET devs == fnIn.devs
             good == {k \in 1..Len(devs) : Qualifies(devs[k])}
         IN IF good # {}
            THEN /\ fnOut.ok
                 /\ fnOut.physicalDevice_ \in good
                 /\ \A k \in good : fnOut.physicalDevice_ <= k
                 /\ devs[fnOut.physicalDevice_][fnOut.graphicsQueueFamily_ + 1].graphics
                 /\ devs[fnOut.physicalDevice_][fnOut.presentQueueFamily_ + 1].present
            ELSE /\ ~fnOut.ok
                 /\ fnOut.physicalDevice_ = 0
                 /\ fnOut.graphicsQueueFamily_ = UNSET
                 /\ fnOut.presentQueueFamily_ = UNSET

\* Sizes with a zero width or a zero height.
ZeroExtents == {z \in (0..MaxDim) \X (0..MaxDim) : z[1] = 0 \/ z[2] = 0}

\* The swapchain, its images, its views and its extent are those of the
\* current state.
SameSwapchain(s) ==
    /\ s.swapchain_ = swapchain_
    /\ s.swapchainImages_ = swapchainImages_
    /\ s.swapchainImageViews_ = swapchainImageViews_
    /\ s.swapchainExtent_ = swapchainExtent_

\* C15: in every state, for every size with a zero width or height,
\* createSwapchain returns false and Resize changes nothing and calls nothing;
\* both leave the swapchain handle, its images, its views and swapchainExtent_
\* as they were.
C15_ZeroSizeRefused ==
    \A z \in ZeroExtents :
       /\ \A e \in FrameSwapEnvs :
            LET r == createSwapchain(Begin("createSwapchain"), z[1], z[2], e)
            IN ~r.ok /\ r.s.calls = <<>> /\ SameSwapchain(r.s)
       /\ \A e \in FrameSwapEnvs :
            LET s == Resize(Begin("Resize"), z[1], z[2], e)
            IN /\ s.calls = <<>> /\ SameSwapchain(s)
               /\ [s EXCEPT !.outcome = "-"] = Begin("Resize")

\* A Resize to a zero size has just returned on a renderer that holds a
\* swapchain.
C15_Witness ==
    /\ lastOp = "Resize" /\ outcome = "zero size"
    /\ swapchain_ = LIVE /\ swapchainImageViews_ # <<>>

\* C16: in every state, Resize to the current swapchain extent makes no
\* driver call (no device wait, no swapchain destruction, no swapchain
\* creation) and leaves every member, both error flags included, as it was.
C16_ResizeSameExtent ==
    \A e \in FrameSwapEnvs :
       LET s == Resize(Begin("Resize"), swapchainExtent_[1], swapchainExtent_[2], e)
       IN /\ s.calls = <<>>
          /\ s.deviceLost_ = deviceLost_ /\ s.swapchainOutOfDate_ = swapchainOutOfDate_
          /\ [s EXCEPT !.outcome = "-"] = Begin("Resize")

\* A Resize to the current extent has just returned on a renderer that holds
\* a swapchain and has an error flag set.
C16_Witness ==
    /\ lastOp = "Resize" /\ outcome = "same size" /\ calls = <<>>
    /\ swapchain_ = LIVE /\ swapchainOutOfDate_

\* The uploads UpdateImageFromData accepts: pixels given, a valid size.
AcceptedUploads == {a \in UpdateArgs : a[1] /\ <<a[2], a[3]>> \in ValidSizes}

\* C17: in every state in which UpdateImageFromData gets past its guards, an
\* upload with the width, height and format of the held texture neither
\* destroys nor creates an image and leaves the texture handle and its
\* description alone; an upload that differs in width, height or format, or
\* finds no texture held, destroys the held image (if there is one) and then
\* creates an image, and the texture it ends with was created in this call
\* with the new width, height and format.
C17_TextureReuse ==
    \A a \in AcceptedUploads :
       UpdateUsesDriver(Cur, a[1], a[2], a[3]) =>
          \A e \in UpdateEnvs :
             LET s == UpdateImageFromData(Begin("UpdateImageFromData"),
                                          a[1], a[2], a[3], a[4], e)
                 same == /\ textureImage_ # NULL
                         /\ textureDesc_ = [w |-> a[2], h |-> a[3], hdr |-> a[4]]
             IN IF same
                THEN /\ ~HasCall(s.calls, "vkDestroyImage")
                     /\ ~HasCall(s.calls, "vkCreateImage")
                     /\ s.textureImage_ = textureImage_
                     /\ s.textureMemory_ = textureMemory_
                     /\ s.textureDesc_ = textureDesc_
                ELSE /\ HasCall(s.calls, "vkCreateImage")
                     /\ textureImage_ # NULL
                          => /\ HasCall(s.calls, "vkDestroyImage")
                             /\ FirstCall(s.calls, "vkDestroyImage")
                                  < FirstCall(s.calls, "vkCreateImage")
                     /\ s.textureImage_ # NULL
                          => s.textureDesc_ = [w |-> a[2], h |-> a[3], hdr |-> a[4]]

\* An upload has just gone through without creating or destroying an image.
C17_Witness ==
    /\ lastOp = "UpdateImageFromData" /\ outcome = "uploaded"
    /\ ~HasCall(calls, "vkCreateImage") /\ ~HasCall(calls, "vkDestroyImage")
    /\ textureImage_ = LIVE

\* The image memory barriers of the single-use command buffers in a call log.
Barriers(log) == SelectSeq(log, LAMBDA c : c[1] = "vkCmdPipelineBarrier")

\* The state s as the next public call finds it.
Then(s, op) == [s EXCEPT !.lastOp = op, !.calls = <<>>, !.outcome = "-"]

\* C18: in every state, every upload that runs to the end without the device
\* being flagged lost has moved the texture UNDEFINED -> TRANSFER_DST ->
\* TRANSFER_SRC, each step once and none skipped, leaves the tracked layout
\* TRANSFER_SRC, and a Render after it that records a frame blits the texture
\* and does not draw the instructional overlay.
C18_UploadLayouts ==
    \A a \in AcceptedUploads :
       UpdateUsesDriver(Cur, a[1], a[2], a[3]) =>
          \A e \in UpdateEnvs :
             LET s == UpdateImageFromData(Begin("UpdateImageFromData"),
                                          a[1], a[2], a[3], a[4], e)
                 r == Render(Then(s, "Render"), 1, 1, QuietFrame)
             IN s.outcome = "uploaded"
                  => /\ Barriers(s.calls) =
                          << <<"vkCmdPipelineBarrier", LayoutChange(UNDEFINED, TRANSFER_DST)>>,
                             <<"vkCmdPipelineBarrier", LayoutChange(TRANSFER_DST, TRANSFER_SRC)>> >>
                     /\ s.textureLayout_ = TRANSFER_SRC
                     /\ HasCall(r.calls, "vkBeginCommandBuffer")
                          => /\ HasCall(r.calls, "vkCmdBlitImage")
                             /\ ~HasCall(r.calls, "RenderInstructionalUI")

\* Arguments of UpdateImageFromData that fail any number of its checks at once.
GuardDims == {0, 1, BigSide, MaxSide + 1}
GuardArgs == BOOLEAN \X GuardDims \X GuardDims \X BOOLEAN

\* C19: in every state, an UpdateImageFromData whose pixel pointer is null,
\* whose width or height is 0 or above 65536, whose width*height is above the
\* pixel-count cap, or which finds the device-lost flag set, makes no driver
\* call and changes no member (texture, tracked layout and flags included);
\* and the check that makes it return is the first that fails in the order
\* pointer and zero size, side cap, pixel-count cap, device-lost flag.
C19_UpdateGuards ==
    \A a \in GuardArgs :
       LET bad == ~a[1] \/ a[2] = 0 \/ a[3] = 0
           large == a[2] > MaxSide \/ a[3] > MaxSide
           many == ~large /\ a[2] * a[3] > MaxPixels
           s == UpdateImageFromData(Begin("UpdateImageFromData"), a[1], a[2], a[3], a[4],
                                    UpdateEnv("ok", "ok", TRUE, "ok", "ok", "ok"))
       IN (bad \/ large \/ many \/ deviceLost_)
            => /\ s.calls = <<>>
               /\ [s EXCEPT !.outcome = "-"] = Begin("UpdateImageFromData")
               /\ s.outcome = IF bad THEN "bad argument"
                              ELSE IF large THEN "too large"
                              ELSE IF many THEN "too many pixels"
                              ELSE "device lost"

\* An upload has just been refused for the device-lost flag, on a renderer that
\* has a device and holds a texture.
C19_Witness ==
    /\ lastOp = "UpdateImageFromData" /\ outcome = "device lost" /\ calls = <<>>
    /\ deviceLost_ /\ device_ # NULL /\ textureImage_ = LIVE

\* The value of <<high, low>> halves, for values the model can hold.
ValueOf(v) == v[1] * Radix + v[2]

\* C20: an upload of a 10000 x 8000 HDR image is accepted, picks the 16-bit
\* float RGBA format and sizes the staging buffer at 640,000,000 bytes; and for
\* every accepted width and height the staging size is width*height*8 for HDR
\* and width*height*4 otherwise, with no wrap-around.
C20_StagingSize ==
    fnOut # NoCall
      => /\ (fnIn.width = 10000 /\ fnIn.height = 8000 /\ fnIn.isHdr)
              => /\ fnOut.accepted
                 /\ fnOut.format = R16G16B16A16_SFLOAT
                 /\ fnOut.staging = Halves(0, 640000000)
         /\ fnOut.accepted
              => /\ fnOut.staging[1] < Radix \div 2
                 /\ ValueOf(fnOut.staging)
                      = fnIn.width * fnIn.height * (IF fnIn.isHdr THEN 8 ELSE 4)

\* The calls of a log from its first vkCreateBuffer on: the calls that deal
\* with the staging buffer of an upload and its memory.
SinceStaging(log) ==
    IF HasCall(log, "vkCreateBuffer")
    THEN SubSeq(log, FirstCall(log, "vkCreateBuffer"), Len(log))
    ELSE <<>>
CountCalls(log, fn) == Cardinality({k \in 1..Len(log) : log[k][1] = fn})
CountResults(log, fn, x) == Cardinality({k \in 1..Len(log) : log[k] = <<fn, x>>})

\* C21: when UpdateImageFromData has returned, every staging buffer it created
\* has been destroyed and every staging memory it allocated has been freed,
\* however the upload ended.
C21_StagingReleased ==
    lastOp = "UpdateImageFromData"
      => LET log == SinceStaging(calls)
         IN /\ CountResults(log, "vkCreateBuffer", SUCCESS)
                 = CountCalls(log, "vkDestroyBuffer")
            /\ CountResults(log, "vkAllocateMemory", SUCCESS)
                 = CountCalls(log, "vkFreeMemory")

\* The device was lost in the middle of an upload whose staging buffer and
\* memory had been allocated.
C21_Witness ==
    /\ lastOp = "UpdateImageFromData" /\ outcome = "upload lost"
    /\ HasResult(SinceStaging(calls), "vkAllocateMemory", SUCCESS)
    /\ HasCall(calls, "vkFreeMemory")

\* C22: whatever the corners computed from the zoom and the offsets are, and
\* for every extent of the swapchain, the corners handed to the blit satisfy
\* 0 <= dstX0 < dstX1 <= width and 0 <= dstY0 < dstY1 <= height of the extent.
C22_BlitRectangle ==
    fnOut # NoCall
      => /\ 0 <= fnOut.x[1] /\ fnOut.x[1] < fnOut.x[2] /\ fnOut.x[2] <= fnIn.extent[1]
         /\ 0 <= fnOut.y[1] /\ fnOut.y[1] < fnOut.y[2] /\ fnOut.y[2] <= fnIn.extent[2]

\* The rectangle computed lay entirely beyond the right edge of a surface and
\* above its top edge.
C22_Witness ==
    /\ fnOut # NoCall /\ fnIn.inRange
    /\ fnIn.dst[1] > fnIn.extent[1] /\ fnIn.dst[3] > fnIn.extent[1]
    /\ fnIn.dst[2] < 0 /\ fnIn.dst[4] < 0
    /\ fnOut.x = <<fnIn.extent[1] - 1, fnIn.extent[1]>> /\ fnOut.y = <<0, 1>>

\* C23: between public calls the number of swapchain images, of swapchain image
\* views and of per-image command buffers all equal the image count of the
\* current swapchain, and are all zero when there is no swapchain.
C23_PerImageCounts ==
    halted = "no"
      => LET n == IF swapchain_ = NULL THEN 0 ELSE swapchainImages_
         IN /\ swapchainImages_ = n
            /\ Len(swapchainImageViews_) = n
            /\ Len(commandBuffers_) = n

\* C24: in every state, after a Resize or a Render that is given a valid size
\* and gets past its guards, a swapchain that exists has the size given as its
\* swapchainExtent_; and when the creation of the swapchain failed in that call,
\* swapchainExtent_ is the size given only if a swapchain of that size exists.
\* (No other operation changes swapchainExtent_, and Initialize creates the
\* swapchain at its fixed initial size.)
C24_ExtentIsClientSize ==
    /\ (lastOp = "Initialize" /\ outcome = "ready")
          => swapchainExtent_ = <<InitialWidth, InitialHeight>>
    /\ \A z \in ValidSizes :
          /\ \A e \in FrameSwapEnvs :
               LET s == Resize(Begin("Resize"), z[1], z[2], e)
               IN (device_ # NULL /\ swapchainExtent_ # z)
                    => /\ s.swapchain_ # NULL => s.swapchainExtent_ = z
                       /\ s.swapchain_ = NULL => s.swapchainExtent_ # z
          /\ RenderUsesDriver(Cur, z[1], z[2])
               => \A e \in RenderEnvs(Cur, z[1], z[2], FrameSwapEnvs) :
                     LET s == Render(Begin("Render"), z[1], z[2], e)
                     IN (s.halted = "no" /\ swapchainExtent_ # z)
                          => /\ s.swapchain_ # NULL => s.swapchainExtent_ = z
                             /\ s.swapchain_ = NULL => s.swapchainExtent_ # z

\* The percentages the progress callback heard during the last call, in order.
Reports(c) ==
    LET r == SelectSeq(c, LAMBDA x : x[1] = "cb")
    IN [i \in 1..Len(r) |-> r[i][2]]

Checkpoints == <<5, 20, 35, 55, 65, 80, 90, 100>>

C26_FenceWaitReturns ==
    halted = "no" =>
        \A z \in ValidSizes :
            (/\ RenderUsesDriver(Cur, z[1], z[2])
             /\ Len(inFlightFences_) > FrameSlot(Cur)
             /\ ~gpuLost)
            => \/ fenceSignaled[FrameSlot(Cur)]
               \/ outstanding[FrameSlot(Cur)] > 0

\* The synchronization steps of a frame, in the order Render takes them.
SyncSteps ==
    <<"vkWaitForFences", "vkAcquireNextImageKHR", "vkBeginCommandBuffer",
      "vkEndCommandBuffer", "vkResetFences", "vkQueueSubmit", "vkQueuePresentKHR">>
SyncNames(log) ==
    LET r == SelectSeq(log, LAMBDA c : \E k \in 1..Len(SyncSteps) : c[1] = SyncSteps[k])
    IN [i \in 1..Len(r) |-> r[i][1]]

\* C27: the synchronization steps of one Render are, as far as it gets, the
\* wait on the slot's fence, the acquire, the recording, the reset of that
\* fence, the submit and the present, in this order and each once; the reset
\* is followed at once by the submit; a Render that returns before the submit
\* leaves every signaled fence signaled, the slot's fence among them when the
\* wait succeeded.
C27_StepOrder ==
    [][lastOp' = "Render"
         => LET steps == SyncNames(calls')
            IN /\ Len(steps) <= Len(SyncSteps)
               /\ steps = SubSeq(SyncSteps, 1, Len(steps))
               /\ \A k \in 1..Len(calls') :
                     calls'[k][1] = "vkResetFences"
                     => /\ k < Len(calls') /\ calls'[k + 1][1] = "vkQueueSubmit"
                        /\ calls'[k][2] = SlotName(currentFrame_)
               /\ ~HasCall(calls', "vkQueueSubmit")
                     => /\ \A i \in Slots : fenceSignaled[i] => fenceSignaled'[i]
                        /\ HasResult(calls', "vkWaitForFences", SUCCESS)
                              => fenceSignaled'[currentFrame_']]_vars

C27_Witness ==
    /\ lastOp = "Render" /\ outcome \in {"begin failed", "end failed"}
    /\ HasResult(calls, "vkWaitForFences", SUCCESS)
    /\ ~HasCall(calls, "vkResetFences")
    /\ fenceSignaled[currentFrame_]

\* The Render whose log this is acquired a swapchain image, signaling the
\* slot's image-available semaphore.
AcquiredImage(log) ==
    \/ HasResult(log, "vkAcquireNextImageKHR", SUCCESS)
    \/ HasResult(log, "vkAcquireNextImageKHR", SUBOPTIMAL)

\* C28: when Render has acquired an image, then before the slot's next acquire
\* the frame was submitted (the submission waits on the image-available
\* semaphore, and the image goes to the present) or the device-lost flag is
\* set; no later Render passes the semaphore of a dropped frame to an acquire.
C28_AcquiredImagesAreUsed ==
    (lastOp = "Render" /\ halted = "no" /\ AcquiredImage(calls))
    => \/ HasResult(calls, "vkQueueSubmit", SUCCESS)
       \/ deviceLost_
       \/ \A z \in ValidSizes :
            \A e \in RenderEnvs(Cur, z[1], z[2], FrameSwapEnvs) :
               LET r == Render(Begin("Render"), z[1], z[2], e)
               IN r.currentFrame_ = currentFrame_
                  => ~HasCall(r.calls, "vkAcquireNextImageKHR")

\* The calls of Render that need a swapchain.
SwapchainWork == {"vkAcquireNextImageKHR", "vkQueueSubmit", "vkQueuePresentKHR"}

\* C29: Render does not acquire from a swapchain that does not exist, and a
\* Render whose recreation of the swapchain for a new size fails returns
\* without an acquire, a submit or a present.
C29_NoFrameWithoutSwapchain ==
    /\ lastOp = "Render" => ~HasResult(calls, "vkAcquireNextImageKHR", NULL)
    /\ halted = "no" =>
         \A z \in ValidSizes :
           (RenderUsesDriver(Cur, z[1], z[2]) /\ swapchainExtent_ # z) =>
             \A e \in RenderEnvs(Cur, z[1], z[2], FrameSwapEnvs) :
               LET b == Begin("Render")
                   c == createSwapchain(destroySwapchain(deviceWaitIdle(b)),
                                        z[1], z[2], e.sw1)
                   r == Render(b, z[1], z[2], e)
               IN ~c.ok => \A k \in 1..Len(r.calls) : r.calls[k][1] \notin SwapchainWork

\* C30: the old layout Render names in the barrier before the clear is
\* PRESENT_SRC only for an image that an earlier frame on the same swapchain
\* has left in PRESENT_SRC; an image not drawn on since its swapchain was
\* created is named UNDEFINED.
C30_PreClearLayout ==
    (fnOut.fn = "Render" /\ fnOut.was # PRESENT_SRC) => fnOut.oldLayout = UNDEFINED

\* C31: the layout recorded for the texture is the layout the texture image
\* is really in; an upload in which a transition or the copy failed does not
\* leave TRANSFER_SRC recorded for an image that did not reach it.
C31_TrackedLayout ==
    (halted = "no" /\ textureImage_ # NULL) => textureLayout_ = realLayout

\* The call whose log this is tried to create a texture and did not get one:
\* vkCreateImage failed, or it was not followed by a successful allocation of
\* the image's memory.
TextureFailed(log) ==
    /\ HasCall(log, "vkCreateImage")
    /\ LET k == FirstCall(log, "vkCreateImage")
       IN \/ log[k][2] # SUCCESS
          \/ k = Len(log)
          \/ log[k + 1] # <<"vkAllocateMemory", SUCCESS>>

\* C32: an UpdateImageFromData whose texture creation failed leaves no texture
\* image, no texture memory and a recorded size of 0 x 0, has created no
\* staging buffer and issued no upload command, and has set the device-lost
\* flag.
C32_FailedTexture ==
    (lastOp = "UpdateImageFromData" /\ TextureFailed(calls))
    => /\ textureImage_ = NULL /\ textureMemory_ = NULL
       /\ textureDesc_.w = 0 /\ textureDesc_.h = 0
       /\ ~HasCall(calls, "vkCreateBuffer")
       /\ ~HasResult(calls, "vkAllocateMemory", SUCCESS)
       /\ ~HasCall(calls, "vkCmdPipelineBarrier")
       /\ ~HasCall(calls, "vkCmdCopyBufferToImage")
       /\ deviceLost_

\* A texture was held, and the creation of its replacement failed.
C32_Witness ==
    /\ lastOp = "UpdateImageFromData" /\ TextureFailed(calls)
    /\ HasCall(calls, "vkDestroyImage") /\ HasCall(calls, "vkFreeMemory")
    /\ deviceLost_ /\ textureImage_ = NULL

\* In state s there is one command buffer per swapchain image, each of them a
\* buffer that exists.
OneLiveBufferPerImage(s) ==
    /\ Len(s.commandBuffers_) = s.swapchainImages_
    /\ \A i \in 1..Len(s.commandBuffers_) : s.commandBuffers_[i] = LIVE

\* C33: after every successful creation of the swapchain, in Initialize or in
\* the recreation of Resize and Render, commandBuffers_ holds one command
\* buffer per swapchain image, each allocated from the renderer's current
\* command pool.
C33_CommandBuffersPerImage ==
    /\ (lastOp = "Initialize" /\ outcome = "ready") => OneLiveBufferPerImage(Cur)
    /\ (halted = "no" /\ device_ # NULL) =>
         \A z \in ValidSizes : \A e \in FrameSwapEnvs :
            LET c == createSwapchain(
                         destroySwapchain(deviceWaitIdle(Begin("Resize"))),
                         z[1], z[2], e)
            IN c.ok => OneLiveBufferPerImage(c.s)

\* C34: while the renderer has no logical device, Resize(w, h) makes no GPU
\* call and changes nothing, for every w and h.
C34_ResizeWithoutDevice ==
    (halted = "no" /\ device_ = NULL) =>
        \A z \in ValidSizes \cup ZeroSizes : \A e \in FrameSwapEnvs :
            LET r == Resize(Begin("Resize"), z[1], z[2], e)
            IN r.calls = <<>> /\ [r EXCEPT !.outcome = "-"] = Begin("Resize")

\* C35: while the renderer has no logical device, as after every Shutdown and
\* until an Initialize creates one, Render and UpdateImageFromData make no
\* Vulkan call and use no handle, for every argument.
C35_AfterShutdown ==
    (halted = "no" /\ device_ = NULL) =>
        /\ \A z \in Sizes :
              LET r == Render(Begin("Render"), z[1], z[2], QuietFrame)
              IN r.calls = <<>> /\ r.halted = "no"
        /\ \A a \in UpdateArgs : \A e \in UpdateEnvs :
              LET u == UpdateImageFromData(Begin("UpdateImageFromData"),
                                           a[1], a[2], a[3], a[4], e)
              IN u.calls = <<>> /\ u.halted = "no"

\* A Shutdown on the device-lost path has returned, on a renderer that had
\* Vulkan available: its swapchain handle is still set.
C35_Witness ==
    /\ lastOp = "Shutdown" /\ outcome = "device lost"
    /\ device_ = NULL /\ swapchain_ # NULL /\ vulkanAvailable_

\* C36: a Render of DrawImage that returns with the device-lost or the
\* surface-out-of-date flag set is followed, within DrawImage, by
\* rendererNeedsReset being set; while rendererNeedsReset is set DrawImage is
\* at no Render and no UpdateImageFromData; and rendererNeedsReset is cleared
\* only at the end of a reset that ran Shutdown and Initialize on a renderer
\* flagged lost, or Resize and ClearErrorFlags on one that was not.
C36_ResetHandshake ==
    [][/\ (drawPc = "render" /\ drawPc' # "render"
              /\ (deviceLost_' \/ swapchainOutOfDate_'))
            => rendererNeedsReset'
       /\ rendererNeedsReset'
            => (drawPc' \notin {"upload", "render"}
                /\ ~(drawPc' = "idle" /\ lastOp' \in {"Render", "UpdateImageFromData"}))
       /\ (rendererNeedsReset /\ ~rendererNeedsReset')
            => (resetPc = "finish" /\ resetPc' = "loop")
       /\ (resetPc # "finish" /\ resetPc' = "finish")
            => \/ resetPc = "initialize" /\ lastOp' = "Initialize"
               \/ resetPc = "clear" /\ lastOp' = "ClearErrorFlags"
       /\ (resetPc # "initialize" /\ resetPc' = "initialize")
            => (resetPc = "shutdown" /\ deviceLost_ /\ lastOp' = "Shutdown")
       /\ (resetPc # "clear" /\ resetPc' = "clear")
            => (resetPc = "resize" /\ lastOp' = "Resize")
       /\ (resetPc # "resize" /\ resetPc' = "resize") => ~deviceLost_]_vars

\* DrawImage has come back from a Render that left the surface-out-of-date
\* flag, and the reset is asked for.
C36_Witness ==
    /\ drawPc = "unmark" /\ lastOp = "Render"
    /\ swapchainOutOfDate_ /\ ~deviceLost_ /\ rendererNeedsReset

\* C37: whenever DrawImage, with an image loaded, is about to call Render on
\* a renderer that works (Vulkan available, not flagged lost), that renderer
\* holds the texture of the image; in particular the renderer built by the
\* reset in place of a lost one gets the image uploaded before its first
\* Render, whichever test of DrawImage found the loss.
C37_UploadAfterRebuild ==
    (drawPc = "render" /\ vulkanAvailable_ /\ ~deviceLost_)
        => textureImage_ # NULL

\* C38: on a sparse texture LoadImageTile for a tile whose loaded flag is set
\* calls nothing and changes nothing, whatever the driver would answer; a
\* loaded flag goes away only in an operation that destroys the image; and a
\* tile with the flag set has memory that is bound to the image.
C38_LoadedTiles ==
    [][/\ \A k \in 1..Len(fnOut.imageTiles_) :
            fnOut.imageTiles_[k].loaded
              => /\ fnOut.imageTiles_[k].memory # NULL /\ fnOut.imageTiles_[k].bound
                 /\ \A how \in TileHows, isHdr \in BOOLEAN :
                      LET t == [fnOut EXCEPT !.calls = <<>>]
                          tilesX == TilesAcross(t.textureWidth_, t.tileSize_)
                      IN LoadImageTile(t, (k - 1) % tilesX, (k - 1) \div tilesX,
                                       TRUE, isHdr, how) = t
                 /\ \/ /\ k <= Len(fnOut'.imageTiles_)
                       /\ fnOut'.imageTiles_[k].loaded
                       /\ fnOut'.textureImage_ # NULL
                    \/ HasCall(fnOut'.calls, "vkDestroyImage")
       /\ \A k \in 1..Len(fnOut'.imageTiles_) :
            (fnOut'.imageTiles_[k].loaded
               /\ ~(k <= Len(fnOut.imageTiles_) /\ fnOut.imageTiles_[k].loaded
                       /\ ~HasCall(fnOut'.calls, "vkDestroyImage")))
              => HasResult(fnOut'.calls, "vkQueueBindSparse", SUCCESS)
       /\ (fnIn'.fn = "UpdateImageTiled" /\ ~fnIn'.fresh
              /\ fnOut.textureIsSparse_
              /\ fnIn'.tile <= Len(fnOut.imageTiles_)
              /\ fnOut.imageTiles_[fnIn'.tile].loaded)
            => fnOut'.calls = <<>>]_vars

\* UpdateImageTiled has been called for a tile of a four-tile texture that
\* was loaded before, next to a tile that is not loaded.
C38_Witness ==
    /\ fnOut.fn = "UpdateImageTiled" /\ fnOut.calls = <<>>
    /\ fnOut.textureIsSparse_ /\ ~fnIn.fresh
    /\ Len(fnOut.imageTiles_) = 4
    /\ fnOut.imageTiles_[fnIn.tile].loaded
    /\ \E k \in 1..4 : ~fnOut.imageTiles_[k].loaded

====
